---- MODULE Spec2Model ----
(***************************************************************************)
(* splitbills: a LINE bot that reads a receipt photo, lets the user pick   *)
(* the total among the amounts found by OCR, asks for the party size and   *)
(* answers with the amount per person.                                     *)
(*                                                                         *)
(* Text is a sequence of one-character strings.  A decimal.Decimal is a    *)
(* record [k, neg, c, e]: kind ("fin", "inf", "nan", "snan"), sign,        *)
(* coefficient as a sequence of digits without leading zeros, exponent.    *)
(* The coefficient is kept as digits so that the 28 significant digits of  *)
(* Python's default decimal context are modelled at their real width.      *)
(***************************************************************************)
EXTENDS Integers, Sequences, FiniteSets, TLC

(***************************************************************************)
(* Characters                                                              *)
(***************************************************************************)
DigitChars == <<"0", "1", "2", "3", "4", "5", "6", "7", "8", "9">>

IsDigit(ch) == \E i \in 1..10 : DigitChars[i] = ch

DigitVal(ch) == (CHOOSE i \in 1..10 : DigitChars[i] = ch) - 1

\* str.isspace(), the characters that str.strip() removes and the regex class
\* \s matches, among the characters of code 0..255 (a string of the model
\* holds no other): tab, line feed, VT (U+000B), form feed, carriage return,
\* FS, GS, RS, US (U+001C..U+001F), space, NEL (U+0085), NBSP (U+00A0)
IsSpace(ch) ==
    ch \in {"\t", "\n", "", "\f", "\r", "", "", "", "", " ", "", " "}

\* the whitespace int(str) skips at both ends: FS, GS, RS, US are not part of it
IsIntSpace(ch) == ch \in {"\t", "\n", "", "\f", "\r", " ", "", " "}

\* str.lower() on the letters the Decimal constructor looks at
Lower(ch) ==
    CASE ch = "I" -> "i" [] ch = "N" -> "n" [] ch = "F" -> "f"
      [] ch = "T" -> "t" [] ch = "Y" -> "y" [] ch = "A" -> "a"
      [] ch = "S" -> "s" [] ch = "E" -> "e" [] OTHER -> ch

LowerSeq(s) == [i \in 1..Len(s) |-> Lower(s[i])]

(***************************************************************************)
(* Sequences of characters and of digits                                   *)
(***************************************************************************)
Drop(s, k) == IF k >= Len(s) THEN <<>> ELSE SubSeq(s, k + 1, Len(s))

Take(s, k) == IF k <= 0 THEN <<>> ELSE SubSeq(s, 1, IF k < Len(s) THEN k ELSE Len(s))

RECURSIVE LStrip(_)
LStrip(s) == IF s # <<>> /\ IsSpace(s[1]) THEN LStrip(Tail(s)) ELSE s

RECURSIVE RStrip(_)
RStrip(s) == IF s # <<>> /\ IsSpace(s[Len(s)]) THEN RStrip(Take(s, Len(s) - 1)) ELSE s

\* str.strip()
Strip(s) == RStrip(LStrip(s))

\* str.replace(ch, "")
RECURSIVE Remove(_, _)
Remove(s, ch) ==
    IF s = <<>> THEN <<>>
    ELSE IF s[1] = ch THEN Remove(Tail(s), ch)
    ELSE <<s[1]>> \o Remove(Tail(s), ch)

\* str.replace(a, b), one character for another
ReplaceCh(s, a, b) == [i \in 1..Len(s) |-> IF s[i] = a THEN b ELSE s[i]]

\* str.count(ch)
Count(s, ch) == Cardinality({i \in 1..Len(s) : s[i] = ch})

\* str.rfind(ch), 1-based, 0 when absent
RFind(s, ch) ==
    IF \E i \in 1..Len(s) : s[i] = ch
    THEN CHOOSE i \in 1..Len(s) : s[i] = ch /\ \A j \in (i + 1)..Len(s) : s[j] # ch
    ELSE 0

\* str.find(ch), 1-based, 0 when absent
Find(s, ch) ==
    IF \E i \in 1..Len(s) : s[i] = ch
    THEN CHOOSE i \in 1..Len(s) : s[i] = ch /\ \A j \in 1..(i - 1) : s[j] # ch
    ELSE 0

StartsWith(s, p) == Len(s) >= Len(p) /\ SubSeq(s, 1, Len(p)) = p

AllDigits(s) == \A i \in 1..Len(s) : IsDigit(s[i])

ToDigits(s) == [i \in 1..Len(s) |-> DigitVal(s[i])]

Zeros(k) == [i \in 1..k |-> 0]

RECURSIVE StripZeros(_)
StripZeros(c) == IF Len(c) > 1 /\ c[1] = 0 THEN StripZeros(Tail(c)) ELSE c

IsZeroDigits(c) == \A i \in 1..Len(c) : c[i] = 0

\* the digits of c + 1
RECURSIVE IncDigits(_)
IncDigits(c) ==
    IF c = <<>> THEN <<1>>
    ELSE IF c[Len(c)] < 9 THEN Take(c, Len(c) - 1) \o <<c[Len(c)] + 1>>
    ELSE IncDigits(Take(c, Len(c) - 1)) \o <<0>>

\* the digits of a natural number
RECURSIVE NatDigits(_)
NatDigits(n) == IF n < 10 THEN <<n>> ELSE NatDigits(n \div 10) \o <<n % 10>>

\* the natural number of a short digit sequence
RECURSIVE DigitsNat(_)
DigitsNat(c) ==
    IF c = <<>> THEN 0 ELSE DigitsNat(Take(c, Len(c) - 1)) * 10 + c[Len(c)]

\* divmod(int(c), n) by long division from digit i on, r the running remainder
RECURSIVE LongDiv(_, _, _, _)
LongDiv(c, n, i, r) ==
    IF i > Len(c) THEN [q |-> <<>>, r |-> r]
    ELSE LET cur == r * 10 + c[i]
             rest == LongDiv(c, n, i + 1, cur % n)
         IN  [q |-> <<cur \div n>> \o rest.q, r |-> rest.r]

\* -1, 0, 1 as the natural number of digits a is below, equal to, above that of b
RECURSIVE CmpSameLen(_, _)
CmpSameLen(a, b) ==
    IF a = <<>> THEN 0
    ELSE IF a[1] < b[1] THEN -1
    ELSE IF a[1] > b[1] THEN 1
    ELSE CmpSameLen(Tail(a), Tail(b))

CmpDigits(a, b) ==
    LET x == StripZeros(a)
        y == StripZeros(b)
    IN  IF Len(x) < Len(y) THEN -1
        ELSE IF Len(x) > Len(y) THEN 1
        ELSE CmpSameLen(x, y)

(***************************************************************************)
(* decimal.Decimal                                                         *)
(***************************************************************************)
\* getcontext().prec of Python's default decimal context, which the division
\* of split_per_person runs under
Prec == 28

\* getcontext().Emax and getcontext().Emin of the default context
Emax == 999999

Emin == -999999

\* Context.Etiny(): the least exponent of a subnormal result
Etiny == Emin - Prec + 1

\* Context.Etop(): the greatest exponent of a result of Prec digits
Etop == Emax - Prec + 1

\* Decimal(str) reads the literal exactly, under the widest context of the
\* decimal module: MAX_EMAX = 10^18 - 1 and MIN_ETINY = -(2 * 10^18 - 3).
\* Numbers of that size are held as two limbs, hi * Limb + lo.
Limb == 1000000000

\* a finite Decimal of sign neg, coefficient digits c and exponent
\* x * Limb + e, where |e| < Limb and e has the sign of x: the exponent of a
\* literal may have up to nineteen digits
FinWide(neg, c, x, e) == [k |-> "fin", neg |-> neg, c |-> c, e |-> e, x |-> x]

\* a finite Decimal of an exponent e below Limb: every result of the
\* arithmetic of the default context is one
Fin(neg, c, e) == FinWide(neg, c, 0, e)

Special(kind, neg) == [k |-> kind, neg |-> neg, c |-> <<0>>, e |-> 0, x |-> 0]

\* Python's None where a Decimal is optional
NoDec == [k |-> "none", neg |-> FALSE, c |-> <<0>>, e |-> 0, x |-> 0]

Returned(v) == [exc |-> "none", v |-> v]

Raised(name) == [exc |-> name, v |-> NoDec]

Min(a, b) == IF a < b THEN a ELSE b

Max(a, b) == IF a < b THEN b ELSE a

\* [-+]?\d+, the text of an exponent
ExponentSyntax(x) ==
    IF x # <<>> /\ x[1] \in {"+", "-"}
    THEN Len(x) > 1 /\ AllDigits(Tail(x))
    ELSE x # <<>> /\ AllDigits(x)

\* the digits of the exponent text x after its sign, leading zeros dropped
ExponentDigits(x) ==
    IF x[1] \in {"+", "-"} THEN StripZeros(ToDigits(Tail(x))) ELSE StripZeros(ToDigits(x))

\* MAX_EMAX and MIN_ETINY in limbs
MaxEmaxHi == 999999999

MaxEmaxLo == 999999999

MinEtinyHi == 1999999999

MinEtinyLo == 999999997

\* int(c) + k > hi * Limb + lo, for the digits c of a natural number and an
\* integer k of less than nine digits
DigitsAbove(c, k, hi, lo) ==
    IF Len(c) > 19 \/ (Len(c) = 19 /\ c[1] > 1) THEN TRUE
    ELSE LET low == DigitsNat(IF Len(c) > 9 THEN Drop(c, Len(c) - 9) ELSE c) + k
             high == DigitsNat(Take(c, Len(c) - 9)) + (low \div Limb)
         IN  high > hi \/ (high = hi /\ low % Limb > lo)

\* the literal of n coefficient digits, f of them after the point, and exponent
\* text x is a number of the widest context: its adjusted exponent is at most
\* MAX_EMAX and its exponent at least MIN_ETINY
ExponentFits(x, n, f) ==
    IF x[1] = "-" THEN ~DigitsAbove(ExponentDigits(x), f, MinEtinyHi, MinEtinyLo)
    ELSE ~DigitsAbove(ExponentDigits(x), n - 1 - f, MaxEmaxHi, MaxEmaxLo)

\* the exponent written in x, hi * Limb + lo: its limb hi, with its sign
ExponentHi(x) ==
    IF x[1] = "-" THEN -DigitsNat(Take(ExponentDigits(x), Len(ExponentDigits(x)) - 9))
    ELSE DigitsNat(Take(ExponentDigits(x), Len(ExponentDigits(x)) - 9))

\* its limb lo, with its sign
ExponentLo(x) ==
    IF x[1] = "-" THEN -DigitsNat(Drop(ExponentDigits(x), Max(Len(ExponentDigits(x)) - 9, 0)))
    ELSE DigitsNat(Drop(ExponentDigits(x), Max(Len(ExponentDigits(x)) - 9, 0)))

\* the Decimal of exponent hi * Limb + low, where low is a limb of the sign
\* of hi less a number of fraction digits
WideExp(neg, c, hi, low) ==
    IF hi > 0 /\ low < 0 THEN FinWide(neg, c, hi - 1, low + Limb)
    ELSE IF low <= -Limb THEN FinWide(neg, c, hi - 1, low + Limb)
    ELSE FinWide(neg, c, hi, low)

\* the number of the coefficient digits c, f of them after the point, and
\* exponent text x; a number the widest context does not hold is an
\* InvalidOperation
DecimalOfExponent(neg, c, f, x) ==
    IF ExponentFits(x, Len(c), f)
    THEN Returned(WideExp(neg, c, ExponentHi(x), ExponentLo(x) - f))
    ELSE Raised("InvalidOperation")

\* a number of integer digits ip, fraction digits fp and exponent text x
DecimalOfFields(neg, ip, fp, hasExp, x) ==
    IF ~(AllDigits(ip) /\ AllDigits(fp) /\ Len(ip) + Len(fp) >= 1)
    THEN Raised("InvalidOperation")
    ELSE IF ~hasExp THEN Returned(Fin(neg, StripZeros(ToDigits(ip \o fp)), -Len(fp)))
    ELSE IF ~ExponentSyntax(x) THEN Raised("InvalidOperation")
    ELSE DecimalOfExponent(neg, StripZeros(ToDigits(ip \o fp)), Len(fp), x)

\* a mantissa and the text after the E, if there is one
DecimalOfMantissa(neg, mant, dot, hasExp, x) ==
    IF dot = 0 THEN DecimalOfFields(neg, mant, <<>>, hasExp, x)
    ELSE DecimalOfFields(neg, Take(mant, dot - 1), Drop(mant, dot), hasExp, x)

DecimalOfNumber(neg, r, ePos) ==
    IF ePos = 0 THEN DecimalOfMantissa(neg, r, Find(r, "."), FALSE, <<>>)
    ELSE DecimalOfMantissa(neg, Take(r, ePos - 1), Find(Take(r, ePos - 1), "."),
                           TRUE, Drop(r, ePos))

\* the text after the sign, in lower case
DecimalOfUnsigned(neg, r) ==
    IF r \in {<<"i", "n", "f">>, <<"i", "n", "f", "i", "n", "i", "t", "y">>}
    THEN Returned(Special("inf", neg))
    ELSE IF StartsWith(r, <<"n", "a", "n">>) /\ AllDigits(Drop(r, 3))
    THEN Returned(Special("nan", neg))
    ELSE IF StartsWith(r, <<"s", "n", "a", "n">>) /\ AllDigits(Drop(r, 4))
    THEN Returned(Special("snan", neg))
    ELSE DecimalOfNumber(neg, r, Find(r, "e"))

DecimalOfClean(t) ==
    IF t # <<>> /\ t[1] \in {"+", "-"}
    THEN DecimalOfUnsigned(t[1] = "-", LowerSeq(Tail(t)))
    ELSE DecimalOfUnsigned(FALSE, LowerSeq(t))

\* Decimal(str): surrounding whitespace is stripped, every underscore removed,
\* then [sign] (digits [. digits] [E [sign] digits] | Inf | Infinity | NaN | sNaN),
\* letters in any case; anything else raises InvalidOperation
DecimalOf(s) == DecimalOfClean(Remove(Strip(s), "_"))

\* the comparison of two finite Decimals by value: -1, 0, 1
DecSign(d) == IF IsZeroDigits(d.c) THEN 0 ELSE IF d.neg THEN -1 ELSE 1

DecCmpAligned(a, b, e0) ==
    IF DecSign(a) # DecSign(b)
    THEN (IF DecSign(a) < DecSign(b) THEN -1 ELSE 1)
    ELSE DecSign(a) * CmpDigits(a.c \o Zeros(a.e - e0), b.c \o Zeros(b.e - e0))

DecCmp(a, b) == DecCmpAligned(a, b, Min(a.e, b.e))

\* a == b of two Decimals: a signalling NaN raises InvalidOperation, a quiet
\* NaN equals nothing, an infinity equals the infinity of its sign
DecEq(a, b) ==
    IF a.k = "snan" \/ b.k = "snan" THEN Raised("InvalidOperation")
    ELSE IF a.k = "fin" /\ b.k = "fin" THEN Returned(DecCmp(a, b) = 0)
    ELSE Returned(a.k = "inf" /\ b.k = "inf" /\ a.neg = b.neg)

\* a <= b of two finite Decimals
DecLe(a, b) == DecCmp(a, b) <= 0

\* Decimal._round_half_up: is the coefficient, cut to its first p digits, raised?
RoundHalfUp(c, p) == c[p + 1] >= 5

\* Decimal._round_half_even
RoundHalfEven(c, p) ==
    IF c[p + 1] = 5 /\ IsZeroDigits(Drop(c, p + 1)) /\ (p = 0 \/ c[p] % 2 = 0)
    THEN FALSE
    ELSE RoundHalfUp(c, p)

\* the coefficient c1 after rounding: one that took a digit more than Prec
\* loses its last digit to the exponent, which may then pass Etop (Overflow is
\* trapped in the default context)
FixCarry(neg, c1, expMin) ==
    IF Len(c1) > Prec
    THEN IF expMin + 1 > Etop THEN Raised("Overflow")
         ELSE Returned(Fin(neg, Take(c1, Prec), expMin + 1))
    ELSE Returned(Fin(neg, c1, expMin))

\* the first digits digits of src kept at exponent expMin, rounded half-even
\* (the context's rounding)
FixRound(neg, src, digits, expMin) ==
    IF RoundHalfEven(src, digits)
    THEN FixCarry(neg, IncDigits(IF digits = 0 THEN <<0>> ELSE Take(src, digits)), expMin)
    ELSE FixCarry(neg, IF digits = 0 THEN <<0>> ELSE Take(src, digits), expMin)

\* the least exponent a coefficient of len digits at exponent e may keep:
\* len + e - Prec, and Etiny for a subnormal
FixExpMin(len, e) == Max(len + e - Prec, Etiny)

\* Decimal._fix: a finite result brought into the default context.  A zero has
\* its exponent clamped to Etiny..Emax; a number whose Prec-digit form lies
\* above Etop raises Overflow; digits below the least exponent are rounded
\* away (Clamped, Rounded, Inexact, Subnormal and Underflow are not trapped)
Fix(d) ==
    IF IsZeroDigits(d.c) THEN Returned(Fin(d.neg, <<0>>, Min(Max(d.e, Etiny), Emax)))
    ELSE IF Len(d.c) + d.e - Prec > Etop THEN Raised("Overflow")
    ELSE IF d.e >= FixExpMin(Len(d.c), d.e) THEN Returned(d)
    ELSE IF Len(d.c) + d.e - FixExpMin(Len(d.c), d.e) < 0
    THEN FixRound(d.neg, <<1>>, 0, FixExpMin(Len(d.c), d.e))
    ELSE FixRound(d.neg, d.c, Len(d.c) + d.e - FixExpMin(Len(d.c), d.e),
                  FixExpMin(Len(d.c), d.e))

\* an exact quotient is brought as close to the ideal exponent as its
\* trailing zeros allow
RECURSIVE ReduceExact(_, _, _, _)
ReduceExact(neg, c, e, ideal) ==
    IF e < ideal /\ c[Len(c)] = 0 /\ Len(c) > 1
    THEN ReduceExact(neg, Take(c, Len(c) - 1), e + 1, ideal)
    ELSE Fin(neg, c, e)

\* the quotient q of the shifted coefficient; inexact: a remainder was left
DivRound(x, q, inexact, shift) ==
    IF inexact
    THEN Fix(Fin(x.neg,
                 IF q[Len(q)] % 5 = 0 THEN Take(q, Len(q) - 1) \o <<q[Len(q)] + 1>> ELSE q,
                 x.e - shift))
    ELSE Fix(ReduceExact(x.neg, q, x.e - shift, x.e))

DivQuotient(x, d, dropped, shift) ==
    DivRound(x, StripZeros(d.q), d.r # 0 \/ ~IsZeroDigits(dropped), shift)

\* divmod(coefficient * 10**shift, n), or divmod(coefficient, n * 10**-shift)
DivShifted(x, n, shift) ==
    IF shift >= 0
    THEN DivQuotient(x, LongDiv(x.c \o Zeros(shift), n, 1, 0), <<>>, shift)
    ELSE DivQuotient(x, LongDiv(Take(x.c, Len(x.c) + shift), n, 1, 0),
                     Drop(x.c, Len(x.c) + shift), shift)

\* the quotient of a total whose exponent is Limb and more, or -Limb and
\* less: a zero keeps the nearest exponent of the default context, a number
\* above it raises Overflow, one below it is rounded to the zero of exponent
\* Etiny (Underflow is not trapped)
DivWide(x) ==
    IF IsZeroDigits(x.c) THEN Returned(Fin(x.neg, <<0>>, IF x.x > 0 THEN Emax ELSE Etiny))
    ELSE IF x.x > 0 THEN Raised("Overflow")
    ELSE Returned(Fin(x.neg, <<0>>, Etiny))

\* total / Decimal(people), people > 0 (Decimal.__truediv__)
DecDivInt(x, n) ==
    CASE x.k = "snan" -> Raised("InvalidOperation")
      [] x.k = "nan" -> Returned(x)
      [] x.k = "inf" -> Returned(x)
      [] x.k = "fin" /\ x.x # 0 -> DivWide(x)
      [] OTHER ->
         IF IsZeroDigits(x.c) THEN Fix(Fin(x.neg, <<0>>, x.e))
         ELSE DivShifted(x, n, Len(NatDigits(n)) - Len(x.c) + Prec + 1)

\* ROUND_UP in place of ROUND_HALF_UP: any digit dropped raises the result
RescaleKept_round_up(neg, src, digits, qe) ==
    IF ~IsZeroDigits(Drop(src, digits))
    THEN Fin(neg, IncDigits(IF digits = 0 THEN <<0>> ELSE Take(src, digits)), qe)
    ELSE Fin(neg, IF digits = 0 THEN <<0>> ELSE Take(src, digits), qe)

\* the digits kept and the exponent asked for
RescaleKept(neg, src, digits, qe) ==
    IF RoundHalfUp(src, digits)
    THEN Fin(neg, IncDigits(IF digits = 0 THEN <<0>> ELSE Take(src, digits)), qe)
    ELSE Fin(neg, IF digits = 0 THEN <<0>> ELSE Take(src, digits), qe)

\* Decimal._rescale(exp, ROUND_HALF_UP) of a non-zero finite Decimal
Rescale(d, qe) ==
    IF d.e >= qe THEN Fin(d.neg, d.c \o Zeros(d.e - qe), qe)
    ELSE IF Len(d.c) + d.e - qe < 0 THEN RescaleKept(d.neg, <<1>>, 0, qe)
    ELSE RescaleKept(d.neg, d.c, Len(d.c) + d.e - qe, qe)

\* the rescaled value: its adjusted exponent must not pass Emax, its
\* coefficient must fit the precision
QuantizeChecked(ans) ==
    IF ans.e + Len(ans.c) - 1 > Emax THEN Raised("InvalidOperation")
    ELSE IF Len(ans.c) > Prec THEN Raised("InvalidOperation")
    ELSE Fix(ans)

\* Decimal.quantize(finite Decimal with exponent qe, rounding=ROUND_HALF_UP)
Quantize(d, qe) ==
    CASE d.k = "snan" -> Raised("InvalidOperation")
      [] d.k = "nan" -> Returned(d)
      [] d.k = "inf" -> Raised("InvalidOperation")
      [] OTHER ->
         IF qe < Etiny \/ qe > Emax THEN Raised("InvalidOperation")
         ELSE IF IsZeroDigits(d.c) THEN Fix(Fin(d.neg, <<0>>, qe))
         ELSE IF d.e + Len(d.c) - 1 > Emax THEN Raised("InvalidOperation")
         ELSE IF (d.e + Len(d.c) - 1) - qe + 1 > Prec THEN Raised("InvalidOperation")
         ELSE QuantizeChecked(Rescale(d, qe))

\* Decimal(10) ** -scale, of which quantize reads the exponent only: 1E-scale
\* for a scale >= 0, down to Etiny, under which the power is a zero of exponent
\* Etiny; for a scale < 0 the power has exponent 0 while it fits Prec digits,
\* then Prec digits and the exponent that is left, and raises Overflow above
\* Emax
QuantizeExp(scale) ==
    IF -scale > Emax THEN Raised("Overflow")
    ELSE IF scale >= 0 THEN Returned(Max(-scale, Etiny))
    ELSE Returned(Max(0, -scale - (Prec - 1)))

(***************************************************************************)
(* amount.py: split_per_person                                             *)
(***************************************************************************)
\* per_person.quantize(Decimal(10) ** -scale, rounding=ROUND_HALF_UP), of the
\* quotient per_person when the division returned one
QuantizeQuotient(per_person, scale) ==
    IF per_person.exc # "none" THEN per_person
    ELSE IF QuantizeExp(scale).exc # "none" THEN Raised(QuantizeExp(scale).exc)
    ELSE Quantize(per_person.v, QuantizeExp(scale).v)

split_per_person(total, people, scale) ==
    IF people <= 0 THEN Raised("ValueError")
    ELSE QuantizeQuotient(DecDivInt(total, people), scale)

(***************************************************************************)
(* int(str)                                                                *)
(***************************************************************************)
\* sys.int_info.default_max_str_digits: int() of a text of more digits raises
\* ValueError
MaxStrDigits == 4300

IntBodyOk(body) ==
    /\ body # <<>>
    /\ Cardinality({i \in 1..Len(body) : IsDigit(body[i])}) <= MaxStrDigits
    /\ \A i \in 1..Len(body) : IsDigit(body[i]) \/ body[i] = "_"
    /\ IsDigit(body[1]) /\ IsDigit(body[Len(body)])
    /\ \A i \in 1..(Len(body) - 1) : ~(body[i] = "_" /\ body[i + 1] = "_")

IntOfBody(neg, body) ==
    IF ~IntBodyOk(body) THEN [ok |-> FALSE, v |-> 0]
    ELSE IF neg THEN [ok |-> TRUE, v |-> -DigitsNat(ToDigits(Remove(body, "_")))]
    ELSE [ok |-> TRUE, v |-> DigitsNat(ToDigits(Remove(body, "_")))]

IntOfStripped(t) ==
    IF t # <<>> /\ t[1] \in {"+", "-"} THEN IntOfBody(t[1] = "-", Tail(t))
    ELSE IntOfBody(FALSE, t)

\* the text without the whitespace int() skips at its two ends
IntStrip(s) ==
    LET kept == {i \in 1..Len(s) : ~IsIntSpace(s[i])}
    IN  IF kept = {} THEN <<>>
        ELSE SubSeq(s, CHOOSE i \in kept : \A j \in kept : i <= j,
                    CHOOSE i \in kept : \A j \in kept : j <= i)

\* int(text): surrounding whitespace stripped, an optional sign, then digits
\* with single underscores allowed between digits; ok = FALSE is ValueError
IntOf(s) == IntOfStripped(IntStrip(s))

(***************************************************************************)
(***************************************************************************)
(* amount.py: the token pattern, parse_numeric, extract_amount_candidates  *)
(***************************************************************************)
DigitAt(s, i) == i >= 1 /\ i <= Len(s) /\ IsDigit(s[i])

\* [,.\s]
GroupSepAt(s, i) == i >= 1 /\ i <= Len(s) /\ (s[i] \in {",", "."} \/ IsSpace(s[i]))

\* [.,]
FracSepAt(s, i) == i >= 1 /\ i <= Len(s) /\ s[i] \in {",", "."}

\* \d{1,max} at i, greedy: how many digits it takes
DigitRun(s, i, max) ==
    IF max >= 3 /\ DigitAt(s, i) /\ DigitAt(s, i + 1) /\ DigitAt(s, i + 2) THEN 3
    ELSE IF max >= 2 /\ DigitAt(s, i) /\ DigitAt(s, i + 1) THEN 2
    ELSE IF DigitAt(s, i) THEN 1
    ELSE 0

\* \d+ at i: how many digits it takes
RECURSIVE DigitsPlus(_, _)
DigitsPlus(s, i) == IF DigitAt(s, i) THEN 1 + DigitsPlus(s, i + 1) ELSE 0

\* (?:[,.\s]\d{3})* at i, greedy: the position after it
RECURSIVE Groups(_, _)
Groups(s, i) ==
    IF GroupSepAt(s, i) /\ DigitAt(s, i + 1) /\ DigitAt(s, i + 2) /\ DigitAt(s, i + 3)
    THEN Groups(s, i + 4)
    ELSE i

\* (?:[.,]\d{1,2})? at i, greedy: the position after it
OptFraction(s, i) ==
    IF FracSepAt(s, i) /\ DigitAt(s, i + 1) THEN i + 1 + DigitRun(s, i + 1, 2) ELSE i

\* \d{1,3}(?:[,.\s]\d{3})*(?:[.,]\d{1,2})? at i: the length matched, 0 for no match
MatchGrouped(s, i) ==
    IF DigitAt(s, i) THEN OptFraction(s, Groups(s, i + DigitRun(s, i, 3))) - i ELSE 0

\* \d+(?:[.,]\d{1,2})? at i: the length matched, 0 for no match
MatchPlain(s, i) ==
    IF DigitAt(s, i) THEN OptFraction(s, i + DigitsPlus(s, i)) - i ELSE 0

\* the pattern at i: its alternatives are tried in order, the first to match wins
MatchAt(s, i) ==
    LET grouped == MatchGrouped(s, i)
    IN  IF grouped > 0 THEN grouped ELSE MatchPlain(s, i)

\* re.finditer(pattern, s): the matched tokens, left to right, from position i on
RECURSIVE FindIter(_, _)
FindIter(s, i) ==
    IF i > Len(s) THEN <<>>
    ELSE LET m == MatchAt(s, i)
         IN  IF m > 0
             THEN <<SubSeq(s, i, i + m - 1)>> \o FindIter(s, i + m)
             ELSE FindIter(s, i + 1)

\* the list a successful Decimal(...) appends to, nothing when it raises
DecList(s) ==
    LET d == DecimalOf(s)
    IN  IF d.exc = "none" THEN <<d.v>> ELSE <<>>

\* parse_numeric that reads every single comma as the decimal point
parse_numeric_comma_decimal(token0) ==
    LET token == Remove(token0, " ")
        dot_count == Count(token, ".")
        comma_count == Count(token, ",")
    IN  IF token0 = <<>> THEN <<>>
        ELSE IF dot_count = 0 /\ comma_count = 0 THEN DecList(token)
        ELSE IF dot_count = 1 /\ comma_count = 0 THEN DecList(token)
        ELSE IF dot_count = 0 /\ comma_count = 1
        THEN DecList(ReplaceCh(token, ",", "."))
        ELSE IF dot_count > 0 /\ comma_count > 0
        THEN IF RFind(token, ".") > RFind(token, ",")
             THEN DecList(Remove(Remove(token, ","), " "))
             ELSE DecList(ReplaceCh(Remove(token, "."), ",", "."))
        ELSE IF dot_count > 1 THEN DecList(Remove(token, "."))
        ELSE IF comma_count > 1 THEN DecList(Remove(token, ","))
        ELSE <<>>

parse_numeric(token0) ==
    LET token == Remove(token0, " ")
        dot_count == Count(token, ".")
        comma_count == Count(token, ",")
    IN  IF token0 = <<>> THEN <<>>
        ELSE IF dot_count = 0 /\ comma_count = 0 THEN DecList(token)
        ELSE IF dot_count = 1 /\ comma_count = 0 THEN DecList(token)
        ELSE IF dot_count = 0 /\ comma_count = 1
        THEN IF Len(token) - Find(token, ",") = 3
             THEN DecList(Remove(token, ","))
             ELSE DecList(ReplaceCh(token, ",", "."))
        ELSE IF dot_count > 0 /\ comma_count > 0
        THEN IF RFind(token, ".") > RFind(token, ",")
             THEN DecList(Remove(Remove(token, ","), " "))
             ELSE DecList(ReplaceCh(Remove(token, "."), ",", "."))
        ELSE IF dot_count > 1 THEN DecList(Remove(token, "."))
        ELSE IF comma_count > 1 THEN DecList(Remove(token, ","))
        ELSE <<>>

\* Decimal('1') <= value <= Decimal('10000000'): the ordering of a NaN, quiet
\* or signalling, raises InvalidOperation; no infinity is in the range
InRange(v) ==
    IF v.k \in {"nan", "snan"} THEN Raised("InvalidOperation")
    ELSE Returned(/\ v.k = "fin"
                  /\ DecLe(Fin(FALSE, <<1>>, 0), v)
                  /\ DecLe(v, Fin(FALSE, <<1, 0, 0, 0, 0, 0, 0, 0>>, 0)))

\* a list that takes every value, equal to one it holds or not
SetAdd_always(cands, v) == Append(cands, v)

\* set.add: a value equal to one already held changes nothing
SetAdd(cands, v) ==
    IF \E i \in 1..Len(cands) : DecEq(cands[i], v) = Returned(TRUE) THEN cands
    ELSE Append(cands, v)

\* for value in parsed_values: the candidates so far, or the exception the
\* range test raised
RECURSIVE AddAll(_, _)
AddAll(found, vals) ==
    IF vals = <<>> \/ found.exc # "none" THEN found
    ELSE IF InRange(vals[1]).exc # "none" THEN Raised(InRange(vals[1]).exc)
    ELSE IF InRange(vals[1]).v
    THEN AddAll(Returned(SetAdd(found.v, vals[1])), Tail(vals))
    ELSE AddAll(found, Tail(vals))

\* for match in re.finditer(...): the candidates of the tokens, in order of
\* first appearance
RECURSIVE Collect(_, _)
Collect(found, tokens) ==
    IF tokens = <<>> \/ found.exc # "none" THEN found
    ELSE Collect(AddAll(found, parse_numeric(tokens[1])), Tail(tokens))

\* sorted(candidates, reverse=True) of values that are pairwise different
RECURSIVE SortedDesc(_)
SortedDesc(cands) ==
    IF cands = <<>> THEN <<>>
    ELSE LET m == CHOOSE i \in 1..Len(cands) :
                      \A j \in 1..Len(cands) : DecLe(cands[j], cands[i])
         IN  <<cands[m]>> \o SortedDesc(Take(cands, m - 1) \o Drop(cands, m))

\* the candidates of the loop, sorted, or its exception
SortedFound(found) ==
    IF found.exc # "none" THEN found ELSE Returned(SortedDesc(found.v))

\* ocr_text is a text (possibly empty); None is handled by the caller's test
extract_amount_candidates(ocr_text) ==
    IF ocr_text = <<>> THEN Returned(<<>>)
    ELSE SortedFound(Collect(Returned(<<>>), FindIter(ocr_text, 1)))

(***************************************************************************)
(* The inputs of the model: the users, and what they and the OCR service   *)
(* send.                                                                   *)
(***************************************************************************)
Users == {"u1", "u2"}

\* OCR texts: the receipt "Total 1,234 Tax 56", and one without any amount
ReceiptText ==
    <<"T", "o", "t", "a", "l", " ", "1", ",", "2", "3", "4", " ",
      "T", "a", "x", " ", "5", "6">>

BlankText == <<"n", "/", "a", " ", "0">>

OcrText(text) == [kind |-> "text", text |-> text, exc |-> "none"]

OcrNone == [kind |-> "none", text |-> <<>>, exc |-> "none"]

OcrRaise(exc) == [kind |-> "raise", text |-> <<>>, exc |-> exc]

\* what fetching the image and the OCR call do in one image event
ImageOutcomes ==
    {[fetch |-> "other", ocr |-> OcrNone]}
    \cup {[fetch |-> "ok", ocr |-> o] :
              o \in {OcrText(ReceiptText), OcrText(BlankText), OcrNone,
                     OcrRaise("quota"), OcrRaise("other")}}

AmountPrefix == <<"a", "m", "o", "u", "n", "t", "=">>

\* postback data: the buttons of the card, and data no button carries
Postbacks ==
    {AmountPrefix \o <<"1", "2", "3", "4">>,
     AmountPrefix \o <<"1", "E", "+", "2", "7">>,
     AmountPrefix \o <<"-", "5">>,
     AmountPrefix \o <<"a", "b", "c">>,
     AmountPrefix \o <<"1", "e">> \o [i \in 1..19 |-> "9"],
     AmountPrefix \o <<"1", "E", "+">> \o [i \in 1..12 |-> "9"],
     AmountPrefix,
     <<"h", "e", "l", "p">>}

Texts ==
    {<<"3">>, <<" ", "2", "\r", "\n">>, <<"0">>, <<"-", "1">>, <<"a", "b", "c">>,
     [i \in 1..(MaxStrDigits + 1) |-> "1"]}

\* the events of the second user: one button, one party size, one photo
Postbacks2 == {AmountPrefix \o <<"1", "2", "3", "4">>}

Texts2 == {<<"2">>}

ImageOutcomes2 == {[fetch |-> "ok", ocr |-> OcrText(ReceiptText)]}

PostbacksOf(u) == IF u = "u1" THEN Postbacks ELSE Postbacks2

TextsOf(u) == IF u = "u1" THEN Texts ELSE Texts2

ImageOutcomesOf(u) == IF u = "u1" THEN ImageOutcomes ELSE ImageOutcomes2

(***************************************************************************)
(* The parsing and the division of the inputs above, computed once: each   *)
(* call below returns what the function it names returns.                  *)
(***************************************************************************)
ExtractTable ==
    [t \in {img.ocr.text : img \in ImageOutcomes \cup ImageOutcomes2} |->
        extract_amount_candidates(t)]

\* extract_amount_candidates(ocr_text)
Call_extract_amount_candidates(ocr_text) ==
    IF ocr_text \in DOMAIN ExtractTable THEN ExtractTable[ocr_text]
    ELSE extract_amount_candidates(ocr_text)

\* data.split("=")[1] of a data that holds at least one "="
SplitField1(data) ==
    IF Find(Drop(data, Find(data, "=")), "=") = 0 THEN Drop(data, Find(data, "="))
    ELSE Take(Drop(data, Find(data, "=")), Find(Drop(data, Find(data, "=")), "=") - 1)

\* Decimal(data.split("=")[1]): a data without "=" has no field 1, the index
\* raises IndexError before Decimal is called
DecimalOfField1(data) ==
    IF Find(data, "=") = 0 THEN Raised("IndexError") ELSE DecimalOf(SplitField1(data))

AmountTable == [d \in Postbacks \cup Postbacks2 |-> DecimalOfField1(d)]

\* Decimal(data.split("=")[1])
Call_Decimal(data) ==
    IF data \in DOMAIN AmountTable THEN AmountTable[data] ELSE DecimalOfField1(data)

PeopleTable == [t \in {Strip(x) : x \in Texts \cup Texts2} |-> IntOf(t)]

\* int(text)
Call_int(text) == IF text \in DOMAIN PeopleTable THEN PeopleTable[text] ELSE IntOf(text)

SplitTable ==
    [a \in {AmountTable[d].v : d \in DOMAIN AmountTable},
     n \in {PeopleTable[t].v : t \in DOMAIN PeopleTable} |-> split_per_person(a, n, 2)]

\* split_per_person(total, people, scale=2)
Call_split_per_person(total, people) ==
    IF <<total, people>> \in DOMAIN SplitTable THEN SplitTable[total, people]
    ELSE split_per_person(total, people, 2)

(***************************************************************************)
(* session.py: SessionManager                                              *)
(***************************************************************************)
\* ttl_minutes; the clock of the model counts minutes
ttl == 30

\* user_id not in self._sessions
Absent == [stage |-> "none", selected_amount |-> NoDec, last_activity |-> 0]

Session(stage, selected_amount, t) ==
    [stage |-> stage, selected_amount |-> selected_amount, last_activity |-> t]

\* the store after set_state(user_id, stage, selected_amount) at time t
set_state(store, user_id, stage, selected_amount, t) ==
    [store EXCEPT ![user_id] = Session(stage, selected_amount, t)]

\* get_state that takes a record for expired when its age reaches ttl
get_state_expires_at_ttl(store, user_id, t) ==
    IF store[user_id].stage = "none"
    THEN [found |-> FALSE, stage |-> "none", selected_amount |-> NoDec, store |-> store]
    ELSE IF t - store[user_id].last_activity >= ttl
    THEN [found |-> FALSE, stage |-> "none", selected_amount |-> NoDec,
          store |-> [store EXCEPT ![user_id] = Absent]]
    ELSE [found |-> TRUE, stage |-> store[user_id].stage,
          selected_amount |-> store[user_id].selected_amount,
          store |-> [store EXCEPT ![user_id].last_activity = t]]

\* get_state without the write of last_activity on a hit
get_state_no_refresh(store, user_id, t) ==
    IF store[user_id].stage = "none"
    THEN [found |-> FALSE, stage |-> "none", selected_amount |-> NoDec, store |-> store]
    ELSE IF t - store[user_id].last_activity > ttl
    THEN [found |-> FALSE, stage |-> "none", selected_amount |-> NoDec,
          store |-> [store EXCEPT ![user_id] = Absent]]
    ELSE [found |-> TRUE, stage |-> store[user_id].stage,
          selected_amount |-> store[user_id].selected_amount, store |-> store]

\* get_state(user_id) at time t: what it returns (found = FALSE for None) and
\* the store it leaves
get_state(store, user_id, t) ==
    IF store[user_id].stage = "none"
    THEN [found |-> FALSE, stage |-> "none", selected_amount |-> NoDec, store |-> store]
    ELSE IF t - store[user_id].last_activity > ttl
    THEN [found |-> FALSE, stage |-> "none", selected_amount |-> NoDec,
          store |-> [store EXCEPT ![user_id] = Absent]]
    ELSE [found |-> TRUE, stage |-> store[user_id].stage,
          selected_amount |-> store[user_id].selected_amount,
          store |-> [store EXCEPT ![user_id].last_activity = t]]

\* the store after clear_state(user_id)
clear_state(store, user_id) ==
    IF store[user_id].stage # "none" THEN [store EXCEPT ![user_id] = Absent] ELSE store

\* cleanup_expired that removes a record when its age reaches ttl
cleanup_expired_at_ttl(store, t) ==
    [store |-> [u \in DOMAIN store |->
                   IF store[u].stage # "none" /\ t - store[u].last_activity >= ttl
                   THEN Absent ELSE store[u]],
     count |-> Cardinality({u \in DOMAIN store :
                   store[u].stage # "none" /\ t - store[u].last_activity >= ttl})]

\* cleanup_expired that also restarts the clock of the records it keeps
cleanup_expired_refreshes(store, t) ==
    [store |-> [u \in DOMAIN store |->
                   IF store[u].stage = "none" THEN store[u]
                   ELSE IF t - store[u].last_activity > ttl THEN Absent
                   ELSE [store[u] EXCEPT !.last_activity = t]],
     count |-> Cardinality({u \in DOMAIN store :
                   store[u].stage # "none" /\ t - store[u].last_activity > ttl})]

\* cleanup_expired() at time t: the store it leaves and the count it returns
cleanup_expired(store, t) ==
    [store |-> [u \in DOMAIN store |->
                   IF store[u].stage # "none" /\ t - store[u].last_activity > ttl
                   THEN Absent ELSE store[u]],
     count |-> Cardinality({u \in DOMAIN store :
                   store[u].stage # "none" /\ t - store[u].last_activity > ttl})]

(***************************************************************************)
(* usage.py: UsageTracker                                                  *)
(***************************************************************************)
\* MONTHLY_OCR_CAP of the deployment
monthly_cap == 1

\* _check_month_reset, when _get_month_key() returns key
check_month_reset(u, key) ==
    IF key # u.current_month_key THEN [counter |-> 0, current_month_key |-> key] ELSE u

\* increment: the tracker it leaves (the new count is its counter)
increment(u, key) ==
    LET checked == check_month_reset(u, key)
    IN  [checked EXCEPT !.counter = checked.counter + 1]

\* is_limit_exceeded that lets the call at the cap through
is_limit_exceeded_above(free, u, key) ==
    LET checked == check_month_reset(u, key)
    IN  IF ~free THEN [ret |-> FALSE, usage |-> u]
        ELSE [ret |-> checked.counter > monthly_cap, usage |-> checked]

\* is_limit_exceeded: what it returns and the tracker it leaves
is_limit_exceeded(free, u, key) ==
    LET checked == check_month_reset(u, key)
    IN  IF ~free THEN [ret |-> FALSE, usage |-> u]
        ELSE [ret |-> checked.counter >= monthly_cap, usage |-> checked]

\* get_current_count: what it returns and the tracker it leaves
get_current_count(u, key) ==
    LET checked == check_month_reset(u, key)
    IN  [ret |-> checked.counter, usage |-> checked]

\* max(0, self.monthly_cap - self._counter)
Max0(n) == IF n < 0 THEN 0 ELSE n

\* get_remaining: what it returns (-1 for None) and the tracker it leaves
get_remaining(free, u, key) ==
    LET checked == check_month_reset(u, key)
    IN  IF ~free THEN [ret |-> -1, usage |-> u]
        ELSE [ret |-> Max0(monthly_cap - checked.counter), usage |-> checked]

\* reset: the count is set to zero; the month key is neither read nor written
reset(u) == [u EXCEPT !.counter = 0]

(***************************************************************************)
(* main.py: the three handlers.  Each takes the state it reads and returns *)
(* the state it leaves, the message it sends (msg = "none" when it sends   *)
(* nothing) and the exception it lets out (raised = "none" when it         *)
(* returns).  The LINE reply calls themselves are taken to succeed.        *)
(***************************************************************************)
Reply(msg, total, people, per, cands) ==
    [msg |-> msg, total |-> total, people |-> people, per |-> per, cands |-> cands]

Msg(msg) == Reply(msg, NoDec, 0, NoDec, <<>>)

\* the message of the except branch, chosen by the words of str(e)
ErrorMessage(exc) ==
    IF exc = "quota" THEN Msg("quota_exceeded")
    ELSE IF exc = "permission" THEN Msg("permission_error")
    ELSE Msg("processing_error")

\* what one handler run leaves behind
Handled(store, usage, reply, ocr_called) ==
    [store |-> store, usage |-> usage, reply |-> reply, ocr_called |-> ocr_called,
     raised |-> "none"]

\* the call counted before the cap is looked at
LimitReached_counted(store, usage, key) ==
    Handled(store, increment(usage, key), Msg("limit_reached"), FALSE)

\* if usage_tracker.is_limit_exceeded(): reply and return
LimitReached(store, usage, key) == Handled(store, usage, Msg("limit_reached"), FALSE)

\* a failed OCR call taken back off the counter
ImageError_rolled_back(store, usage, exc, ocr_called) ==
    Handled(store, [usage EXCEPT !.counter = IF ocr_called THEN @ - 1 ELSE @],
            ErrorMessage(exc), ocr_called)

\* the except branch: str(e) picks the message
ImageError(store, usage, exc, ocr_called) ==
    Handled(store, usage, ErrorMessage(exc), ocr_called)

\* a failed photo that also drops the user's session
ImageFailed_clears(store, usage, user_id, msg) ==
    Handled(clear_state(store, user_id), usage, Msg(msg), TRUE)

\* if not ocr_text / if not candidates: reply and return
ImageFailed(store, usage, user_id, msg) == Handled(store, usage, Msg(msg), TRUE)

\* a new photo that leaves a session already at awaiting_people alone
ImageSucceeded_keeps_selection(store, usage, t, user_id, candidates) ==
    Handled(IF store[user_id].stage = "awaiting_people" THEN store
            ELSE set_state(store, user_id, "awaiting_amount", NoDec, t),
            usage, Reply("select_amount", NoDec, 0, NoDec, Take(candidates, 5)), TRUE)

\* set_state(user_id, "awaiting_amount") and the card of at most 5 amounts
ImageSucceeded(store, usage, t, user_id, candidates) ==
    Handled(set_state(store, user_id, "awaiting_amount", NoDec, t), usage,
            Reply("select_amount", NoDec, 0, NoDec, Take(candidates, 5)), TRUE)

\* the handler from candidates = extract_amount_candidates(ocr_text) on:
\* candidates is what that call returned, or the exception it raised
ImageParsed(store, usage, t, user_id, candidates) ==
    IF candidates.exc # "none" THEN ImageError(store, usage, candidates.exc, TRUE)
    ELSE IF candidates.v = <<>> THEN ImageFailed(store, usage, user_id, "no_amounts")
    ELSE ImageSucceeded(store, usage, t, user_id, candidates.v)

\* fetch: "ok" or the exception get_message_content raises; ocr: what
\* extract_text_from_image does, [kind: "text", "none" or "raise", text, exc]
handle_image_message(store, usage, free, key, t, user_id, fetch, ocr) ==
    LET lim == is_limit_exceeded(free, usage, key)
        counted == increment(lim.usage, key)
    IN  IF lim.ret THEN LimitReached(store, lim.usage, key)
        ELSE IF fetch # "ok" THEN ImageError(store, lim.usage, fetch, FALSE)
        ELSE IF ocr.kind = "raise" THEN ImageError(store, counted, ocr.exc, TRUE)
        ELSE IF ocr.kind = "none" \/ ocr.text = <<>>
        THEN ImageFailed(store, counted, user_id, "no_text")
        ELSE ImageParsed(store, counted, t, user_id,
                         Call_extract_amount_candidates(ocr.text))

\* f"{amount:,.0f}" writes every integer digit of the amount.  The text of an
\* amount whose exponent is below Limb is taken to be built (this build wrote
\* the 3 * 10^9 digits of 1E+3000000000 in 8 GB).  For a non-zero amount
\* whose exponent is Limb and more the host decides between three outcomes:
\*   "built"    it has the memory, the text is built and sent;
\*   "refused"  the allocator refuses the request at once and the format
\*              raises MemoryError (1E+99999999999 and more on a 16 GB host);
\*   "killed"   the memory is granted and runs out while the text is
\*              written: the kernel kills the process (1E+9999999999 on a
\*              16 GB host), nothing is raised and nothing answered.
\* A NaN, an infinity and a zero are written as they are.
FormatNeedsMemory(amount) == amount.k = "fin" /\ ~IsZeroDigits(amount.c) /\ amount.x > 0

MemoryOutcomes == {"built", "refused", "killed"}

\* what is left of the SessionManager of a process that was killed: the
\* store lived in its memory only, no user has a record
Lost(store) == [u \in DOMAIN store |-> Absent]

\* set_state(user_id, "awaiting_people", selected_amount=amount), then the
\* question for the party size; mem: what the host does with the request for
\* the memory of its text.  The text is formatted after set_state and
\* outside any try: a MemoryError leaves the handler with the selection
\* stored and nothing sent; a kill ends the process with the handler in it
\* (raised = "killed": no exception, the handler never returns)
PostbackSelected(store, t, user_id, amount, mem) ==
    IF FormatNeedsMemory(amount) /\ mem = "refused"
    THEN [store |-> set_state(store, user_id, "awaiting_people", amount, t),
          reply |-> Msg("none"),
          raised |-> "MemoryError"]
    ELSE IF FormatNeedsMemory(amount) /\ mem = "killed"
    THEN [store |-> Lost(set_state(store, user_id, "awaiting_people", amount, t)),
          reply |-> Msg("none"),
          raised |-> "killed"]
    ELSE [store |-> set_state(store, user_id, "awaiting_people", amount, t),
          reply |-> Reply("ask_people", amount, 0, NoDec, <<>>),
          raised |-> "none"]

handle_postback(store, t, user_id, data, mem) ==
    LET amount == Call_Decimal(data)
    IN  IF ~StartsWith(data, AmountPrefix)
        THEN [store |-> store, reply |-> Msg("none"), raised |-> "none"]
        ELSE IF amount.exc # "none"
        THEN [store |-> store, reply |-> Msg("failed_amount"), raised |-> "none"]
        ELSE PostbackSelected(store, t, user_id, amount.v, mem)

\* if not state or state.get("stage") != "awaiting_people": reply and return
TextNoSession(state, user_id) ==
    [store |-> state.store, reply |-> Msg("send_image"), raised |-> "none"]

\* a refused party size that sends the user back to the amount card
TextInvalid_back_to_card(state, user_id) ==
    [store |-> [state.store EXCEPT ![user_id].stage = "awaiting_amount"],
     reply |-> Msg("invalid_number"), raised |-> "none"]

\* int(text) raised ValueError, or people <= 0: reply and return
TextInvalid(state, user_id) ==
    [store |-> state.store, reply |-> Msg("invalid_number"), raised |-> "none"]

\* the result without clear_state
TextResult_keeps_session(state, user_id, total, people, per_person) ==
    IF per_person.exc # "none"
    THEN [store |-> state.store, reply |-> Msg("none"), raised |-> per_person.exc]
    ELSE [store |-> state.store,
          reply |-> Reply("result", total, people, per_person.v, <<>>),
          raised |-> "none"]

\* split_per_person, clear_state, the result; an exception of split_per_person
\* leaves the handler before clear_state
TextResult(state, user_id, total, people, per_person) ==
    IF per_person.exc # "none"
    THEN [store |-> state.store, reply |-> Msg("none"), raised |-> per_person.exc]
    ELSE [store |-> clear_state(state.store, user_id),
          reply |-> Reply("result", total, people, per_person.v, <<>>),
          raised |-> "none"]

handle_text_message(store, t, user_id, text0) ==
    LET text == Strip(text0)
        state == get_state(store, user_id, t)
        people == Call_int(text)
        total == state.selected_amount
    IN  IF ~state.found \/ state.stage # "awaiting_people"
        THEN TextNoSession(state, user_id)
        ELSE IF ~people.ok \/ people.v <= 0
        THEN TextInvalid(state, user_id)
        ELSE TextResult(state, user_id, total, people.v,
                        Call_split_per_person(total, people.v))

(***************************************************************************)
(* The bot as a state machine: webhook events handled one at a time, the   *)
(* clock and the calendar month moving between them.                       *)
(***************************************************************************)
VARIABLES
    sessions,    \* SessionManager._sessions, Absent for a user without a record
    usage,       \* UsageTracker: [counter, current_month_key]
    free_mode,   \* UsageTracker.free_mode (FREE_MODE of the deployment)
    now,         \* datetime.now(), in minutes
    month,       \* what _get_month_key() returns now
    last,        \* the event handled last and what its handler did
    calc,        \* one call of split_per_person: its arguments and its outcome
    ret,         \* the SessionManager call made last and what it returned
    plain,       \* the store of the same calls without any cleanup_expired
    born,        \* per user, the time of the last set_state (-1: none yet)
    lock,        \* SessionManager._lock: the thread that holds it, "none" when free
    threads,     \* per thread, the SessionManager call it is in and its locals
    scan,        \* one text given to extract_amount_candidates and parse_numeric
    uret,        \* the UsageTracker call made last and what it returned
    workers,     \* per request, the handler it runs and that handler's locals
    tally        \* OCR calls made, and per user the results sent since the last selection

vars == <<sessions, usage, free_mode, now, month, last, calc, ret, plain, born,
          lock, threads, scan, uret, workers, tally>>

\* what the calls studied on their own add to the state
extraVars == <<scan, uret, workers, tally>>

\* what handlers running at once add to the state
raceVars == <<workers, tally>>

\* what threads calling the SessionManager add to the state
threadVars == <<lock, threads>>

\* what the calls on the SessionManager alone add to the state
apiVars == <<ret, plain, born>>

\* bounds of the model
TickMinutes == 20
MaxTicks == 2
MaxMonth == 1
MaxCount == 2

\* prior: the stage of the user's record when the event arrived
Event(ev, user_id, prior, r, ocr_called) ==
    [ev |-> ev, user |-> user_id, prior |-> prior, reply |-> r.reply,
     ocr_called |-> ocr_called, raised |-> r.raised]

NoEvent == [ev |-> "none", user |-> "none", prior |-> "none", reply |-> Msg("none"),
            ocr_called |-> FALSE, raised |-> "none"]

NoRet == [op |-> "none", user |-> "none", found |-> FALSE, stage |-> "none",
          selected_amount |-> NoDec, count |-> 0, age |-> -1, plain_had |-> FALSE]

Threads == {"t1", "t2"}

\* a thread outside every call
Idle ==
    [pc |-> "idle", op |-> "none", user |-> "none",
     arg |-> [stage |-> "none", selected_amount |-> NoDec],
     snap |-> [u \in Users |-> Absent], rec |-> Absent, t1 |-> 0, t2 |-> 0,
     found |-> FALSE, expired |-> {}]

\* no text scanned
NoScan == [kind |-> "none", text |-> <<>>, out |-> <<>>, raised |-> "none",
           parsed |-> <<>>, extracted |-> FALSE, tokenized |-> FALSE]

\* no UsageTracker call made; before: the counter the call found; ret, val:
\* the bool or the int it returned (val = -1 for None)
NoUsageRet == [op |-> "none", before |-> 0, ret |-> FALSE, val |-> 0]

Workers == {"w1", "w2"}

\* a request slot between two events
Resting ==
    [pc |-> "idle", ev |-> "none", user |-> "none", data |-> <<>>,
     state |-> [found |-> FALSE, stage |-> "none", selected_amount |-> NoDec],
     img |-> [fetch |-> "none", ocr |-> OcrNone],
     people |-> 0, per |-> NoDec, reply |-> Msg("none"), raised |-> "none",
     overtaken |-> FALSE]

NoTally == [ocr |-> 0, results |-> [u \in Users |-> 0]]

ApiIdle ==
    /\ scan = NoScan
    /\ uret = NoUsageRet
    /\ workers = [w \in Workers |-> Resting]
    /\ tally = NoTally
    /\ lock = "none"
    /\ threads = [th \in Threads |-> Idle]
    /\ ret = NoRet
    /\ plain = [u \in Users |-> Absent]
    /\ born = [u \in Users |-> -1]

NoCalc == [total |-> NoDec, people |-> 0, scale |-> 0, out |-> Raised("none"),
           done |-> FALSE]

Init ==
    /\ sessions = [u \in Users |-> Absent]
    /\ month = 0
    /\ usage = [counter |-> 0, current_month_key |-> 0]
    /\ free_mode \in BOOLEAN
    /\ now = 0
    /\ last = NoEvent
    /\ calc = NoCalc
    /\ ApiIdle

\* the process that holds the SessionManager and the UsageTracker is running:
\* no handler has ended with the process killed
ProcessAlive == last.raised # "killed"

\* what a run r of handle_image_message leaves in the store and the tracker
ImageHandled(user_id, r) ==
    /\ sessions' = r.store
    /\ usage' = r.usage
    /\ last' = Event("image", user_id, sessions[user_id].stage, r, r.ocr_called)

\* an image message of user_id
ImageEvent(user_id, img) ==
    /\ ProcessAlive
    /\ usage.counter < MaxCount
    /\ ImageHandled(user_id, handle_image_message(sessions, usage, free_mode, month, now,
                                                  user_id, img.fetch, img.ocr))
    /\ UNCHANGED <<free_mode, now, month, calc, apiVars, threadVars, extraVars>>

\* what a run r of handle_postback leaves; when the process is killed its
\* UsageTracker goes with it: no calls are counted any more
PostbackHandled(user_id, r) ==
    /\ sessions' = r.store
    /\ usage' = IF r.raised = "killed" THEN [usage EXCEPT !.counter = 0] ELSE usage
    /\ last' = Event("postback", user_id, sessions[user_id].stage, r, FALSE)

\* a postback of user_id
PostbackEvent(user_id, data) ==
    \E mem \in MemoryOutcomes :
        /\ ProcessAlive
        /\ PostbackHandled(user_id, handle_postback(sessions, now, user_id, data, mem))
        /\ UNCHANGED <<free_mode, now, month, calc, apiVars, threadVars, extraVars>>

\* a text message of user_id
TextEvent(user_id, text) ==
    LET r == handle_text_message(sessions, now, user_id, text)
    IN  /\ ProcessAlive
        /\ sessions' = r.store
        /\ last' = Event("text", user_id, sessions[user_id].stage, r, FALSE)
        /\ UNCHANGED <<usage, free_mode, now, month, calc, apiVars, threadVars, extraVars>>

\* time passes
Tick ==
    /\ now + TickMinutes <= MaxTicks * TickMinutes
    /\ now' = now + TickMinutes
    /\ UNCHANGED <<sessions, usage, free_mode, month, last, calc, apiVars, threadVars, extraVars>>

\* the calendar month of the tracker's timezone changes
MonthChange ==
    /\ month < MaxMonth
    /\ month' = month + 1
    /\ UNCHANGED <<sessions, usage, free_mode, now, last, calc, apiVars, threadVars, extraVars>>

Next ==
    \/ \E u \in Users : \E img \in ImageOutcomesOf(u) : ImageEvent(u, img)
    \/ \E u \in Users : \E d \in PostbacksOf(u) : PostbackEvent(u, d)
    \/ \E u \in Users : \E t \in TextsOf(u) : TextEvent(u, t)
    \/ Tick
    \/ MonthChange

Spec == Init /\ [][Next]_vars

\* The same bot with the clock kept moving.  Nothing obliges a user to send
\* another event, and no step of the bot runs without one: main.py starts
\* no timer and no background task, and never calls cleanup_expired.
SpecLive == Init /\ [][Next]_vars /\ WF_vars(Tick)

(***************************************************************************)
(* split_per_person on its own: one call on arguments drawn from the       *)
(* amounts below, party sizes 0..MaxPeople and scales 0..MaxScale.         *)
(***************************************************************************)
MaxCoef == 30
MaxFrac == 3
MaxPeople == 7
MaxScale == 2

\* Decimal("100"), Decimal("1234")
ReceiptTotals == {Fin(FALSE, <<1, 0, 0>>, 0), Fin(FALSE, <<1, 2, 3, 4>>, 0)}

\* Decimal("0.00499999999999999999999999999999"),
\* Decimal("12345678901234567890123456.785"), Decimal("1E+27")
LongTotals ==
    {Fin(FALSE, <<4>> \o [i \in 1..29 |-> 9], -32),
     Fin(FALSE, <<1, 2, 3, 4, 5, 6, 7, 8, 9, 0, 1, 2, 3, 4, 5, 6, 7, 8, 9, 0,
                  1, 2, 3, 4, 5, 6, 7, 8, 5>>, -3),
     Fin(FALSE, <<1>>, 27)}

SplitTotals ==
    {Fin(FALSE, NatDigits(m), -f) : m \in 0..MaxCoef, f \in 0..MaxFrac}
    \cup ReceiptTotals \cup LongTotals

InitSplit ==
    /\ sessions = [u \in Users |-> Absent]
    /\ month = 0
    /\ usage = [counter |-> 0, current_month_key |-> 0]
    /\ free_mode = TRUE
    /\ now = 0
    /\ last = NoEvent
    /\ ApiIdle
    /\ calc \in {[total |-> a, people |-> n, scale |-> sc, out |-> Raised("none"),
                  done |-> FALSE] :
                    a \in SplitTotals, n \in 0..MaxPeople, sc \in 0..MaxScale}

SplitCall ==
    /\ ~calc.done
    /\ calc' = [calc EXCEPT !.out = split_per_person(calc.total, calc.people, calc.scale),
                            !.done = TRUE]
    /\ UNCHANGED <<sessions, usage, free_mode, now, month, last, apiVars, threadVars, extraVars>>

NextSplit == SplitCall

SpecSplit == InitSplit /\ [][NextSplit]_vars

(***************************************************************************)
(* The SessionManager on its own: set_state, get_state, clear_state and    *)
(* cleanup_expired called in any order, the clock moving by half a ttl     *)
(* between them, so that a record is seen at exactly ttl and beyond it.    *)
(* plain follows the same calls with every cleanup_expired left out.       *)
(***************************************************************************)
MaxSteps == 4

HalfTtl == ttl \div 2

D500 == Fin(FALSE, <<5, 0, 0>>, 0)

\* the arguments of set_state
SessionArgs ==
    {[stage |-> "awaiting_amount", selected_amount |-> NoDec],
     [stage |-> "awaiting_people", selected_amount |-> D500]}

\* the age of user_id's record at time t, -1 without a record
Age(store, user_id, t) ==
    IF store[user_id].stage = "none" THEN -1 ELSE t - store[user_id].last_activity

Ret(op, user_id, g, count) ==
    [op |-> op, user |-> user_id, found |-> g.found, stage |-> g.stage,
     selected_amount |-> g.selected_amount, count |-> count,
     age |-> IF user_id \in Users THEN Age(sessions, user_id, now) ELSE -1,
     plain_had |-> user_id \in Users /\ plain[user_id].stage # "none"]

NoneFound == [found |-> FALSE, stage |-> "none", selected_amount |-> NoDec]

InitSession ==
    /\ sessions = [u \in Users |-> Absent]
    /\ month = 0
    /\ usage = [counter |-> 0, current_month_key |-> 0]
    /\ free_mode = TRUE
    /\ now = 0
    /\ last = NoEvent
    /\ calc = NoCalc
    /\ ApiIdle

SetState(user_id, a) ==
    /\ sessions' = set_state(sessions, user_id, a.stage, a.selected_amount, now)
    /\ plain' = set_state(plain, user_id, a.stage, a.selected_amount, now)
    /\ born' = [born EXCEPT ![user_id] = now]
    /\ ret' = Ret("set_state", user_id, NoneFound, 0)
    /\ UNCHANGED <<usage, free_mode, now, month, last, calc, threadVars, extraVars>>

GetState(user_id) ==
    /\ sessions' = get_state(sessions, user_id, now).store
    /\ plain' = get_state(plain, user_id, now).store
    /\ ret' = Ret("get_state", user_id, get_state(sessions, user_id, now), 0)
    /\ UNCHANGED <<usage, free_mode, now, month, last, calc, born, threadVars, extraVars>>

ClearState(user_id) ==
    /\ sessions' = clear_state(sessions, user_id)
    /\ plain' = clear_state(plain, user_id)
    /\ ret' = Ret("clear_state", user_id, NoneFound, 0)
    /\ UNCHANGED <<usage, free_mode, now, month, last, calc, born, threadVars, extraVars>>

CleanupExpired ==
    /\ sessions' = cleanup_expired(sessions, now).store
    /\ ret' = Ret("cleanup_expired", "none", NoneFound, cleanup_expired(sessions, now).count)
    /\ UNCHANGED <<usage, free_mode, now, month, last, calc, plain, born, threadVars, extraVars>>

Advance ==
    /\ now < MaxSteps * HalfTtl
    /\ now' = now + HalfTtl
    /\ UNCHANGED <<sessions, usage, free_mode, month, last, calc, apiVars, threadVars, extraVars>>

NextSession ==
    \/ \E u \in Users : \E a \in SessionArgs : SetState(u, a)
    \/ \E u \in Users : GetState(u)
    \/ \E u \in Users : ClearState(u)
    \/ CleanupExpired
    \/ Advance

SpecSession == InitSession /\ [][NextSession]_vars

(***************************************************************************)
(* Threads calling the SessionManager at once.  Every method body is       *)
(* "with self._lock:"; inside it the statements are separate steps, and    *)
(* the clock may move between any two steps.  pc: "idle", "wait" (before   *)
(* the with), the statement reached inside it, "out" (leaving it).         *)
(***************************************************************************)
\* the calls a thread makes: both threads work on u1, the first one also
\* on the other users through cleanup_expired
ThreadOps(th) ==
    IF th = "t1" THEN {"set_state", "get_state", "clear_state", "cleanup_expired"}
    ELSE {"set_state", "get_state", "clear_state"}

ThreadUsers(th) == IF th = "t1" THEN Users ELSE {"u1"}

\* a with block that does not wait for the lock
CanAcquire_unlocked(th) == TRUE

\* Lock.acquire: the lock is free
CanAcquire(th) == lock = "none"

OnlyThread(th, rec) ==
    /\ threads' = [threads EXCEPT ![th] = rec]
    /\ UNCHANGED <<usage, free_mode, month, last, calc, apiVars, now, extraVars>>

\* a thread enters a method
Call(th, op, user_id, a) ==
    /\ threads[th].pc = "idle"
    /\ OnlyThread(th, [Idle EXCEPT !.pc = "wait", !.op = op, !.user = user_id, !.arg = a])
    /\ UNCHANGED <<sessions, lock>>

\* with self._lock: snap remembers the store the thread found
Acquire(th) ==
    /\ threads[th].pc = "wait"
    /\ CanAcquire(th)
    /\ lock' = th
    /\ OnlyThread(th, [threads[th] EXCEPT !.pc = "in", !.snap = sessions, !.t1 = now,
                                          !.t2 = now])
    /\ UNCHANGED sessions

\* self._sessions[user_id] = {..., 'last_activity': datetime.now()}
SetBody(th) ==
    /\ threads[th].pc = "in" /\ threads[th].op = "set_state"
    /\ sessions' = set_state(sessions, threads[th].user, threads[th].arg.stage,
                             threads[th].arg.selected_amount, now)
    /\ OnlyThread(th, [threads[th] EXCEPT !.pc = "out", !.t2 = now])
    /\ UNCHANGED lock

\* if user_id not in self._sessions: return None; session = self._sessions[user_id]
GetLookup(th) ==
    /\ threads[th].pc = "in" /\ threads[th].op = "get_state"
    /\ OnlyThread(th, IF sessions[threads[th].user].stage = "none"
                      THEN [threads[th] EXCEPT !.pc = "out"]
                      ELSE [threads[th] EXCEPT !.pc = "test",
                                               !.rec = sessions[threads[th].user]])
    /\ UNCHANGED <<sessions, lock>>

\* if datetime.now() - session['last_activity'] > self.ttl: del ...; return None
GetTest(th) ==
    /\ threads[th].pc = "test"
    /\ IF now - threads[th].rec.last_activity > ttl
       THEN /\ sessions' = [sessions EXCEPT ![threads[th].user] = Absent]
            /\ OnlyThread(th, [threads[th] EXCEPT !.pc = "out", !.t1 = now, !.t2 = now])
       ELSE /\ sessions' = sessions
            /\ OnlyThread(th, [threads[th] EXCEPT !.pc = "refresh", !.t1 = now])
    /\ UNCHANGED lock

\* session['last_activity'] = datetime.now(); return the snapshot.  session
\* is the dict found by the lookup: the store sees the write while it still
\* holds that dict
GetRefresh(th) ==
    /\ threads[th].pc = "refresh"
    /\ sessions' = IF sessions[threads[th].user] = threads[th].rec
                   THEN [sessions EXCEPT ![threads[th].user].last_activity = now]
                   ELSE sessions
    /\ OnlyThread(th, [threads[th] EXCEPT !.pc = "out", !.t2 = now, !.found = TRUE])
    /\ UNCHANGED lock

\* if user_id in self._sessions:
ClearLookup(th) ==
    /\ threads[th].pc = "in" /\ threads[th].op = "clear_state"
    /\ OnlyThread(th, [threads[th] EXCEPT
                           !.pc = IF sessions[threads[th].user].stage = "none"
                                  THEN "out" ELSE "del"])
    /\ UNCHANGED <<sessions, lock>>

\* del self._sessions[user_id]
ClearDelete(th) ==
    /\ threads[th].pc = "del"
    /\ sessions' = [sessions EXCEPT ![threads[th].user] = Absent]
    /\ OnlyThread(th, [threads[th] EXCEPT !.pc = "out"])
    /\ UNCHANGED lock

\* now = datetime.now(); expired_users = [...]
CleanupScan(th) ==
    /\ threads[th].pc = "in" /\ threads[th].op = "cleanup_expired"
    /\ OnlyThread(th, [threads[th] EXCEPT
                           !.pc = "sweep", !.t1 = now,
                           !.expired = {u \in Users :
                                           /\ sessions[u].stage # "none"
                                           /\ now - sessions[u].last_activity > ttl}])
    /\ UNCHANGED <<sessions, lock>>

\* for user_id in expired_users: del self._sessions[user_id]
CleanupSweep(th) ==
    /\ threads[th].pc = "sweep"
    /\ sessions' = [u \in Users |-> IF u \in threads[th].expired THEN Absent
                                    ELSE sessions[u]]
    /\ OnlyThread(th, [threads[th] EXCEPT !.pc = "out"])
    /\ UNCHANGED lock

\* the end of the with block: the lock is released and the method returns
Release(th) ==
    /\ threads[th].pc = "out"
    /\ lock' = "none"
    /\ OnlyThread(th, Idle)
    /\ UNCHANGED sessions

ThreadStep(th) ==
    \/ \E op \in ThreadOps(th) : \E u \in ThreadUsers(th) : \E a \in SessionArgs :
           Call(th, op, u, a)
    \/ Acquire(th)
    \/ SetBody(th)
    \/ GetLookup(th)
    \/ GetTest(th)
    \/ GetRefresh(th)
    \/ ClearLookup(th)
    \/ ClearDelete(th)
    \/ CleanupScan(th)
    \/ CleanupSweep(th)
    \/ Release(th)

NextThreads ==
    \/ \E th \in Threads : ThreadStep(th)
    \/ Advance

SpecThreads == InitSession /\ [][NextThreads]_vars

(***************************************************************************)
(* extract_amount_candidates and parse_numeric on their own: one call of   *)
(* each on a text drawn from every text of at most MaxLen characters over  *)
(* ScanChars, and from the named texts below.                              *)
(***************************************************************************)
MaxLen == 5

ScanChars == {"0", "1", "5", ".", ",", " "}

Txt1500 == <<"1", "5", "0", "0">>
Txt999999999 == <<"9", "9", "9", "9", "9", "9", "9", "9", "9">>
Txt1c234 == <<"1", ",", "2", "3", "4">>
Txt12c34 == <<"1", "2", ",", "3", "4">>
Txt1d234c56 == <<"1", ".", "2", "3", "4", ",", "5", "6">>
Txt1c234d56 == <<"1", ",", "2", "3", "4", ".", "5", "6">>
Txt10c000c000 == <<"1", "0", ",", "0", "0", "0", ",", "0", "0", "0">>
Txt10c000c001 == <<"1", "0", ",", "0", "0", "0", ",", "0", "0", "1">>
Txt1d2d34c5d6 == <<"1", ".", "2", ".", "3", "4", ",", "5", ".", "6">>

NamedTexts ==
    {Txt1500, Txt999999999, Txt1c234, Txt12c34, Txt1d234c56, Txt1c234d56,
     Txt10c000c000, Txt10c000c001, Txt1d2d34c5d6, ReceiptText, BlankText,
     <<"1", "\r", "2", "3", "4">>, <<"1", "2", "\t", "3", "4", "5", " ", "6">>}

ScanTexts == UNION {[1..n -> ScanChars] : n \in 0..MaxLen} \cup NamedTexts

InitExtract ==
    /\ sessions = [u \in Users |-> Absent]
    /\ month = 0
    /\ usage = [counter |-> 0, current_month_key |-> 0]
    /\ free_mode = TRUE
    /\ now = 0
    /\ last = NoEvent
    /\ calc = NoCalc
    /\ lock = "none"
    /\ threads = [th \in Threads |-> Idle]
    /\ ret = NoRet
    /\ plain = [u \in Users |-> Absent]
    /\ born = [u \in Users |-> -1]
    /\ uret = NoUsageRet
    /\ workers = [w \in Workers |-> Resting]
    /\ tally = NoTally
    /\ scan \in {NoScan} \cup {[NoScan EXCEPT !.kind = "text", !.text = t] : t \in ScanTexts}

\* extract_amount_candidates(ocr_text), ocr_text a str or None: out is the
\* list returned, raised the exception that left the call
ExtractCall ==
    /\ ~scan.extracted
    /\ LET r == IF scan.kind = "none" THEN Returned(<<>>)
                ELSE extract_amount_candidates(scan.text)
       IN  scan' = [scan EXCEPT !.extracted = TRUE,
                                !.out = IF r.exc = "none" THEN r.v ELSE <<>>,
                                !.raised = r.exc]
    /\ uret' = uret
    /\ UNCHANGED <<sessions, usage, free_mode, now, month, last, calc, apiVars, threadVars,
                   raceVars>>

\* parse_numeric(token), token a str
ParseCall ==
    /\ scan.kind = "text"
    /\ ~scan.tokenized
    /\ scan' = [scan EXCEPT !.tokenized = TRUE, !.parsed = parse_numeric(scan.text)]
    /\ uret' = uret
    /\ UNCHANGED <<sessions, usage, free_mode, now, month, last, calc, apiVars, threadVars,
                   raceVars>>

NextExtract == ExtractCall \/ ParseCall

SpecExtract == InitExtract /\ [][NextExtract]_vars

(***************************************************************************)
(* The UsageTracker on its own: increment, is_limit_exceeded,              *)
(* get_current_count, get_remaining and reset called in any order, in free *)
(* mode or not, the month key changing between them.                       *)
(***************************************************************************)
MaxCalls == 3
MaxMonths == 3

InitUsage ==
    /\ sessions = [u \in Users |-> Absent]
    /\ month = 0
    /\ usage = [counter |-> 0, current_month_key |-> 0]
    /\ free_mode \in BOOLEAN
    /\ now = 0
    /\ last = NoEvent
    /\ calc = NoCalc
    /\ ApiIdle

UsageCall(op, r, b, v) ==
    /\ usage' = r.usage
    /\ uret' = [op |-> op, before |-> usage.counter, ret |-> b, val |-> v]
    /\ UNCHANGED <<sessions, free_mode, now, month, last, calc, apiVars, threadVars, scan,
                   raceVars>>

Increment ==
    /\ usage.counter < MaxCalls
    /\ UsageCall("increment", [usage |-> increment(usage, month)], FALSE,
                 increment(usage, month).counter)

IsLimitExceeded ==
    UsageCall("is_limit_exceeded", is_limit_exceeded(free_mode, usage, month),
              is_limit_exceeded(free_mode, usage, month).ret, 0)

GetCurrentCount ==
    UsageCall("get_current_count", get_current_count(usage, month), FALSE,
              get_current_count(usage, month).ret)

GetRemaining ==
    UsageCall("get_remaining", get_remaining(free_mode, usage, month), FALSE,
              get_remaining(free_mode, usage, month).ret)

\* reset(): returns None
Reset ==
    UsageCall("reset", [usage |-> reset(usage)], FALSE, 0)

\* the calendar month of the tracker's timezone changes
NextMonth ==
    /\ month < MaxMonths
    /\ month' = month + 1
    /\ UNCHANGED <<sessions, usage, free_mode, now, last, calc, apiVars, threadVars,
                   extraVars>>

NextUsage ==
    \/ Increment
    \/ IsLimitExceeded
    \/ GetCurrentCount
    \/ GetRemaining
    \/ Reset
    \/ NextMonth

SpecUsage == InitUsage /\ [][NextUsage]_vars

(***************************************************************************)
(* Requests arriving at once: each request carries one event.  A step of   *)
(* a handler is one call on the UsageTracker or the SessionManager (each   *)
(* of them is one critical section under its Lock) together with the       *)
(* handler's own statements up to the next such call.  The month stays the *)
(* same and free mode is on.  Two hosts run the same handler steps:        *)
(*   SpecRace         callback() as main.py has it, a coroutine that calls *)
(*                    handler.handle without awaiting: the event loop runs *)
(*                    one handler from its first statement to its return   *)
(*                    before the next one starts;                          *)
(*   SpecRaceThreads  the multi-threaded host of the concurrency model of  *)
(*                    the specification, for which the Locks of the        *)
(*                    SessionManager and the UsageTracker are there: each  *)
(*                    handler runs on a thread of its own, and the steps   *)
(*                    of two handlers interleave in every order.           *)
(***************************************************************************)
RaceImages ==
    {[fetch |-> "ok", ocr |-> OcrText(ReceiptText)],
     [fetch |-> "ok", ocr |-> OcrRaise("other")],
     [fetch |-> "other", ocr |-> OcrNone]}

RacePostbacks == {AmountPrefix \o <<"1", "2", "3", "4">>, AmountPrefix \o <<"5", "6">>}

RaceTexts == {<<"3">>, <<"a", "b", "c">>}

\* what worker w keeps of the handler it runs
Work(w, rec) ==
    /\ workers' = [workers EXCEPT ![w] = rec]
    /\ UNCHANGED <<free_mode, now, month, last, calc, apiVars, threadVars, scan, uret>>

\* the handler has returned, having sent reply or let exception raised out
Done(w, reply, raised) ==
    [workers[w] EXCEPT !.pc = "done", !.reply = reply, !.raised = raised]

\* POST /callback: the request of one event has arrived and waits, at
\* await request.body(), for the event loop
Receive(w, ev, user_id, data, img) ==
    /\ workers[w].pc = "idle"
    /\ Work(w, [Resting EXCEPT !.pc = "posted", !.ev = ev, !.user = user_id,
                               !.data = data, !.img = img])
    /\ UNCHANGED <<sessions, usage, tally>>

\* the event loop is not inside the handler of another request: handler.handle
\* is a plain call in the coroutine, nothing else runs until it returns
LoopFree(w) == \A v \in Workers \ {w} : workers[v].pc \in {"idle", "posted", "done"}

\* handler.handle hands the event to its handler
Handle(w) ==
    /\ workers[w].pc = "posted"
    /\ LoopFree(w)
    /\ Work(w, [workers[w] EXCEPT !.pc = "start"])
    /\ UNCHANGED <<sessions, usage, tally>>

\* the multi-threaded host: the handler of a request starts on a thread of
\* its own, whatever the handlers of the other requests are doing
HandleOnThread(w) ==
    /\ workers[w].pc = "posted"
    /\ Work(w, [workers[w] EXCEPT !.pc = "start"])
    /\ UNCHANGED <<sessions, usage, tally>>

\* if usage_tracker.is_limit_exceeded(): reply and return
ImageCheck(w) ==
    LET lim == is_limit_exceeded(free_mode, usage, month)
    IN  /\ workers[w].pc = "start" /\ workers[w].ev = "image"
        /\ usage' = lim.usage
        /\ Work(w, IF lim.ret THEN Done(w, LimitReached(sessions, lim.usage, month).reply, "none")
                   ELSE [workers[w] EXCEPT !.pc = "admitted"])
        /\ UNCHANGED <<sessions, tally>>

\* get_message_content, then usage_tracker.increment()
ImageCount(w) ==
    /\ workers[w].pc = "admitted"
    /\ IF workers[w].img.fetch # "ok"
       THEN /\ usage' = usage
            /\ Work(w, Done(w, ImageError(sessions, usage, workers[w].img.fetch, FALSE).reply,
                            "none"))
       ELSE /\ usage' = increment(usage, month)
            /\ Work(w, [workers[w] EXCEPT !.pc = "counted"])
    /\ UNCHANGED <<sessions, tally>>

\* extract_text_from_image and the rest of the handler
ImageOcr(w) ==
    LET ocr == workers[w].img.ocr
        r == IF ocr.kind = "raise" THEN ImageError(sessions, usage, ocr.exc, TRUE)
             ELSE IF ocr.kind = "none" \/ ocr.text = <<>>
             THEN ImageFailed(sessions, usage, workers[w].user, "no_text")
             ELSE ImageParsed(sessions, usage, now, workers[w].user,
                              Call_extract_amount_candidates(ocr.text))
    IN  /\ workers[w].pc = "counted"
        /\ sessions' = r.store
        /\ tally' = [tally EXCEPT !.ocr = @ + 1]
        /\ Work(w, Done(w, r.reply, "none"))
        /\ UNCHANGED usage

\* a text handler of user_id that has read the session and not yet cleared it
Computed(rec, user_id) == rec.pc = "computed" /\ rec.user = user_id

\* the process was killed with every handler that was running in it: no
\* request is answered and none is taken any more
Killed(rec) == [rec EXCEPT !.pc = "killed", !.reply = Msg("none"), !.raised = "killed"]

\* what a run r of handle_postback on worker w leaves; selected: its
\* set_state was made; killed: the process ended in it
PostbackLeft(w, r, selected, killed) ==
    /\ sessions' = r.store
    /\ usage' = IF killed THEN [usage EXCEPT !.counter = 0] ELSE usage
    /\ tally' = IF killed THEN NoTally
                ELSE IF selected THEN [tally EXCEPT !.results[workers[w].user] = 0]
                ELSE tally
    /\ workers' = [v \in Workers |->
                      IF killed THEN Killed(workers[v])
                      ELSE IF v = w THEN Done(w, r.reply, r.raised)
                      ELSE IF selected /\ Computed(workers[v], workers[w].user)
                      THEN [workers[v] EXCEPT !.overtaken = TRUE]
                      ELSE workers[v]]

PostbackRun(w, r) ==
    PostbackLeft(w, r, r.reply.msg = "ask_people" \/ r.raised # "none", r.raised = "killed")

\* handle_postback: its one set_state
PostbackStep(w) ==
    \E mem \in MemoryOutcomes :
        /\ workers[w].pc = "start" /\ workers[w].ev = "postback"
        /\ PostbackRun(w, handle_postback(sessions, now, workers[w].user, workers[w].data,
                                          mem))
        /\ UNCHANGED <<free_mode, now, month, last, calc, apiVars, threadVars, scan, uret>>

\* handle_text_message from get_state to split_per_person
TextGet(w) ==
    LET user_id == workers[w].user
        state == get_state(sessions, user_id, now)
        people == Call_int(Strip(workers[w].data))
        per == Call_split_per_person(state.selected_amount, people.v)
    IN  /\ workers[w].pc = "start" /\ workers[w].ev = "text"
        /\ sessions' = state.store
        /\ Work(w, IF ~state.found \/ state.stage # "awaiting_people"
                   THEN Done(w, TextNoSession(state, user_id).reply, "none")
                   ELSE IF ~people.ok \/ people.v <= 0
                   THEN Done(w, TextInvalid(state, user_id).reply, "none")
                   ELSE IF per.exc # "none"
                   THEN Done(w, Msg("none"), per.exc)
                   ELSE [workers[w] EXCEPT
                             !.pc = "computed",
                             !.state = [found |-> state.found, stage |-> state.stage,
                                        selected_amount |-> state.selected_amount],
                             !.people = people.v, !.per = per.v])
        /\ UNCHANGED <<usage, tally>>

\* handle_text_message from clear_state on: the result is sent
TextClear(w) ==
    LET r == TextResult([store |-> sessions], workers[w].user,
                        workers[w].state.selected_amount, workers[w].people,
                        Returned(workers[w].per))
    IN  /\ workers[w].pc = "computed"
        /\ sessions' = r.store
        /\ tally' = [tally EXCEPT !.results[workers[w].user] = @ + 1]
        /\ Work(w, Done(w, r.reply, r.raised))
        /\ UNCHANGED usage

\* the request is answered, w is free for the next request
Return(w) ==
    /\ workers[w].pc = "done"
    /\ workers' = [workers EXCEPT ![w] = Resting]
    /\ UNCHANGED <<sessions, usage, tally, free_mode, now, month, last, calc, apiVars,
                   threadVars, scan, uret>>

\* a request with an image, a postback or a text event arrives
ReceiveStep(w) ==
    \/ \E u \in Users : \E img \in RaceImages : Receive(w, "image", u, <<>>, img)
    \/ \E u \in Users : \E d \in RacePostbacks : Receive(w, "postback", u, d, Resting.img)
    \/ \E u \in Users : \E t \in RaceTexts : Receive(w, "text", u, t, Resting.img)

\* the next step of the handler that w runs
HandlerStep(w) ==
    \/ ImageCheck(w)
    \/ ImageCount(w)
    \/ ImageOcr(w)
    \/ PostbackStep(w)
    \/ TextGet(w)
    \/ TextClear(w)

WorkerStep(w) ==
    \/ ReceiveStep(w)
    \/ Handle(w)
    \/ HandlerStep(w)
    \/ Return(w)

NextRace == \E w \in Workers : WorkerStep(w)

SpecRace == InitSession /\ [][NextRace]_vars

OnThreadStep(w) ==
    \/ ReceiveStep(w)
    \/ HandleOnThread(w)
    \/ HandlerStep(w)
    \/ Return(w)

NextRaceThreads == \E w \in Workers : OnThreadStep(w)

SpecRaceThreads == InitSession /\ [][NextRaceThreads]_vars

(***************************************************************************)
(* The properties checked.  A session is live at a time when its record    *)
(* exists and its last activity is at most ttl old.                        *)
(***************************************************************************)
\* this step is the handling of an event of kind ev of user u
Handling(ev, u) == last'.ev = ev /\ last'.user = u

AwaitingPeople(u) ==
    /\ sessions[u].stage = "awaiting_people"
    /\ now - sessions[u].last_activity <= ttl

\* the text is an integer n > 0 once stripped
PositiveInt(text) == IntOf(Strip(text)).ok /\ IntOf(Strip(text)).v > 0

D1234 == Fin(FALSE, <<1, 2, 3, 4>>, 0)
D56 == Fin(FALSE, <<5, 6>>, 0)
D100 == Fin(FALSE, <<1, 0, 0>>, 0)

\* C1: a text that parses as n > 0, from a user with a live session at
\* awaiting_people and amount A, is answered with the result (A, n,
\* split_per_person(A, n, 2)), and the session is cleared: get_state finds
\* nothing afterwards.
C1_ResultAndClear ==
    [][\A u \in Users : \A t \in TextsOf(u) :
        (Handling("text", u) /\ TextEvent(u, t) /\ AwaitingPeople(u) /\ PositiveInt(t)) =>
            /\ split_per_person(sessions[u].selected_amount, IntOf(Strip(t)).v, 2).exc = "none"
            /\ last'.raised = "none"
            /\ last'.reply = Reply("result", sessions[u].selected_amount, IntOf(Strip(t)).v,
                                   split_per_person(sessions[u].selected_amount,
                                                    IntOf(Strip(t)).v, 2).v, <<>>)
            /\ ~get_state(sessions', u, now').found]_vars

\* the three steps of the receipt "Total 1,234 Tax 56", with the share the
\* result is to carry
ReceiptRun(per) ==
    /\ \A u \in Users : \A img \in ImageOutcomesOf(u) :
        (/\ Handling("image", u)
         /\ ImageEvent(u, img)
         /\ img = [fetch |-> "ok", ocr |-> OcrText(ReceiptText)]
         /\ ~is_limit_exceeded(free_mode, usage, month).ret) =>
            last'.reply = Reply("select_amount", NoDec, 0, NoDec, <<D1234, D56>>)
    /\ \A u \in Users :
        (Handling("postback", u) /\ PostbackEvent(u, AmountPrefix \o <<"1", "2", "3", "4">>)) =>
            /\ sessions'[u].stage = "awaiting_people"
            /\ sessions'[u].selected_amount = D1234
    /\ \A u \in Users :
        (/\ Handling("text", u)
         /\ TextEvent(u, <<"3">>)
         /\ AwaitingPeople(u)
         /\ sessions[u].selected_amount = D1234) =>
            /\ last'.reply = Reply("result", D1234, 3, per, <<>>)
            /\ ~get_state(sessions', u, now').found

\* C2 as written: the receipt "Total 1,234 Tax 56" gives the candidates
\* [1234, 56]; choosing 1234 leaves the session at awaiting_people with 1234;
\* the text "3" gives total 1234, people 3, per person 411.34, and the
\* session is gone.
C2_Original == [][ReceiptRun(Fin(FALSE, <<4, 1, 1, 3, 4>>, -2))]_vars

\* C2, amended: the same run, with 411.33 per person.
C2_ReceiptRun == [][ReceiptRun(Fin(FALSE, <<4, 1, 1, 3, 3>>, -2))]_vars

C2_Witness ==
    /\ last.ev = "text"
    /\ last.prior = "awaiting_people"
    /\ last.reply = Reply("result", D1234, 3, Fin(FALSE, <<4, 1, 1, 3, 3>>, -2), <<>>)
    /\ sessions[last.user] = Absent

\* the call split_per_person(100, 3, 2) has been made
Split100By3 == calc.done /\ calc.total = D100 /\ calc.people = 3 /\ calc.scale = 2

\* C3 as written: split_per_person(100, 3, 2) = 33.34.
C3_Original == Split100By3 => calc.out = Returned(Fin(FALSE, <<3, 3, 3, 4>>, -2))

\* C3, amended: split_per_person(100, 3, 2) = 33.33.
C3_Split100By3 == Split100By3 => calc.out = Returned(Fin(FALSE, <<3, 3, 3, 3>>, -2))

C3_Witness == Split100By3 /\ calc.out.exc = "none"

\* total / people rounded half-up to scale digits, computed exactly: with
\* total = c * 10^e it is m * 10^-scale, m the integer nearest to
\* c * 10^(e + scale) / people, a half going up.  HalfOf(n, k) is the
\* digits of n * 10^k / 2.
HalfOf(n, k) ==
    IF n % 2 = 0 THEN NatDigits(n \div 2) \o Zeros(k)
    ELSE NatDigits(5 * n) \o Zeros(k - 1)

\* d = divmod(hi, n) and lo the k digits cut off: (hi * 10^k + lo) / (n * 10^k)
ExactRounded(d, lo, n, k, scale) ==
    IF (IF k = 0 THEN 2 * d.r >= n
        ELSE CmpDigits(StripZeros(NatDigits(d.r) \o lo), HalfOf(n, k)) >= 0)
    THEN Fin(FALSE, StripZeros(IncDigits(StripZeros(d.q))), -scale)
    ELSE Fin(FALSE, StripZeros(d.q), -scale)

ExactCut(c, n, k, scale) ==
    ExactRounded(LongDiv(Take(c, Len(c) - k), n, 1, 0), Drop(c, Len(c) - k), n, k, scale)

ExactHalfUp(total, n, scale) ==
    IF total.e + scale >= 0
    THEN ExactRounded(LongDiv(total.c \o Zeros(total.e + scale), n, 1, 0), <<>>, n, 0, scale)
    ELSE ExactCut(Zeros(1 - total.e - scale) \o total.c, n, -(total.e + scale), scale)

\* C4: for every total >= 0 and every people > 0, split_per_person(total,
\* people, scale) is total / people rounded half-up to scale decimal places;
\* 10 / 4 at scale 2 is 2.50, and a quotient ending in 5 at the third
\* decimal place goes up to the next cent.
C4_HalfUpOfQuotient ==
    (calc.done /\ calc.people > 0) =>
        /\ calc.out = Returned(ExactHalfUp(calc.total, calc.people, calc.scale))
        /\ (calc.total = Fin(FALSE, <<1, 0>>, 0) /\ calc.people = 4 /\ calc.scale = 2) =>
               calc.out = Returned(Fin(FALSE, <<2, 5, 0>>, -2))
        /\ (calc.total = Fin(FALSE, <<5>>, -3) /\ calc.people = 1 /\ calc.scale = 2) =>
               calc.out = Returned(Fin(FALSE, <<1>>, -2))

\* C5: a postback "amount=..." whose amount does not parse is answered
\* with "failed to process amount" and leaves the session store as it was;
\* one whose amount parses leaves the user's session at awaiting_people with
\* that amount, whatever the session was before, and asks for the party size.
C5_PostbackAmount ==
    [][\A u \in Users : \A d \in PostbacksOf(u) :
        (Handling("postback", u) /\ PostbackEvent(u, d) /\ StartsWith(d, AmountPrefix)) =>
            IF Call_Decimal(d).exc # "none"
            THEN /\ last'.reply = Msg("failed_amount")
                 /\ sessions' = sessions
            ELSE /\ sessions'[u] = Session("awaiting_people", Call_Decimal(d).v, now)
                 /\ \A v \in Users \ {u} : sessions'[v] = sessions[v]
                 /\ last'.reply = Reply("ask_people", Call_Decimal(d).v, 0, NoDec, <<>>)]_vars

\* C6: a text that is no positive integer, from a user with a live session
\* at awaiting_people, is answered with the validation error and leaves the
\* session's stage and amount as they were, so that any later valid number
\* is answered with the result for that amount.
C6_InvalidThenRetry ==
    [][\A u \in Users : \A t \in TextsOf(u) :
        (Handling("text", u) /\ TextEvent(u, t) /\ AwaitingPeople(u) /\ ~PositiveInt(t)) =>
            /\ last'.reply = Msg("invalid_number")
            /\ sessions'[u].stage = "awaiting_people"
            /\ sessions'[u].selected_amount = sessions[u].selected_amount
            /\ \A t2 \in TextsOf(u) : PositiveInt(t2) =>
                /\ handle_text_message(sessions', now', u, t2).reply.msg = "result"
                /\ handle_text_message(sessions', now', u, t2).reply.total
                       = sessions[u].selected_amount]_vars

\* C7 as written: a text from a user without a session, or with a session
\* whose stage is not awaiting_people, is answered with "please send a
\* receipt image" and the session store is the same after it as before.
C7_Original ==
    [][\A u \in Users : \A t \in TextsOf(u) :
        (Handling("text", u) /\ TextEvent(u, t) /\ ~AwaitingPeople(u)) =>
            /\ last'.reply = Msg("send_image")
            /\ sessions' = sessions]_vars

\* C7, amended: such a text is answered with "please send a receipt image"
\* and changes no stage and no amount; what get_state does is all that
\* happens to the store: a record of that user past its ttl is evicted, a
\* live one has its last activity set to now, no record is created, and the
\* other users' records stay as they were.
C7_SendImage ==
    [][\A u \in Users : \A t \in TextsOf(u) :
        (Handling("text", u) /\ TextEvent(u, t) /\ ~AwaitingPeople(u)) =>
            /\ last'.reply = Msg("send_image")
            /\ \A v \in Users \ {u} : sessions'[v] = sessions[v]
            /\ sessions'[u] =
                   IF sessions[u].stage = "none" \/ now - sessions[u].last_activity > ttl
                   THEN Absent
                   ELSE [sessions[u] EXCEPT !.last_activity = now]]_vars

C7_Witness ==
    /\ last.ev = "text"
    /\ last.reply = Msg("send_image")
    /\ sessions[last.user].stage = "awaiting_amount"
    /\ sessions[last.user].last_activity = now
    /\ now > 0

\* C8: an image event whose OCR returns no text, or whose text holds no
\* amount, is answered with the failure message and leaves the session
\* store as it was.
C8_ImageFailure ==
    [][\A u \in Users : \A img \in ImageOutcomesOf(u) :
        (/\ Handling("image", u)
         /\ ImageEvent(u, img)
         /\ ~is_limit_exceeded(free_mode, usage, month).ret
         /\ img.fetch = "ok"
         /\ img.ocr.kind # "raise"
         /\ \/ img.ocr.kind = "none"
            \/ img.ocr.text = <<>>
            \/ Call_extract_amount_candidates(img.ocr.text) = Returned(<<>>)) =>
            /\ last'.reply = IF img.ocr.kind = "none" \/ img.ocr.text = <<>>
                             THEN Msg("no_text") ELSE Msg("no_amounts")
            /\ last'.ocr_called
            /\ sessions' = sessions]_vars

C8_Witness ==
    /\ last.ev = "image"
    /\ last.reply = Msg("no_amounts")
    /\ last.ocr_called
    /\ sessions[last.user].stage = "awaiting_people"

\* C9: an image event that succeeds leaves the user's session at
\* awaiting_amount with no amount, whatever it was before; a text of a
\* user whose session is at awaiting_amount is answered with "please send
\* a receipt image", never with a result.
C9_ImageSuccess ==
    [][/\ \A u \in Users : \A img \in ImageOutcomesOf(u) :
            (/\ Handling("image", u)
         /\ ImageEvent(u, img)
             /\ ~is_limit_exceeded(free_mode, usage, month).ret
             /\ img = [fetch |-> "ok", ocr |-> OcrText(ReceiptText)]) =>
                /\ last'.reply.msg = "select_amount"
                /\ sessions'[u] = Session("awaiting_amount", NoDec, now)
       /\ \A u \in Users : \A t \in TextsOf(u) :
            (Handling("text", u) /\ TextEvent(u, t) /\ sessions[u].stage = "awaiting_amount") =>
                last'.reply = Msg("send_image")]_vars

C9_Witness ==
    /\ last.ev = "image"
    /\ last.prior = "awaiting_people"
    /\ last.reply.msg = "select_amount"
    /\ sessions[last.user] = Session("awaiting_amount", NoDec, now)

\* C10: an image event that starts with is_limit_exceeded() true is
\* answered with the rate-limit message, makes no OCR call, and leaves the
\* session store and the usage counter as they were.
C10_LimitReached ==
    [][\A u \in Users : \A img \in ImageOutcomesOf(u) :
        (/\ Handling("image", u)
         /\ ImageEvent(u, img)
         /\ is_limit_exceeded(free_mode, usage, month).ret) =>
            /\ last'.reply = Msg("limit_reached")
            /\ ~last'.ocr_called
            /\ sessions' = sessions
            /\ usage'.counter = usage.counter]_vars

C10_Witness ==
    /\ last.ev = "image"
    /\ last.reply = Msg("limit_reached")
    /\ ~last.ocr_called
    /\ usage.counter >= monthly_cap

\* C11: within one image event the OCR call is made only after
\* is_limit_exceeded returned false, and exactly one increment of that event
\* comes before it; the increment stays whatever the OCR call does (text, no
\* text, an exception), and an event without OCR call counts nothing.
C11_CountThenOcr ==
    [][\A u \in Users : \A img \in ImageOutcomesOf(u) :
        (Handling("image", u) /\ ImageEvent(u, img)) =>
            /\ last'.ocr_called =
                   (~is_limit_exceeded(free_mode, usage, month).ret /\ img.fetch = "ok")
            /\ last'.ocr_called =>
                   usage'.counter = check_month_reset(usage, month).counter + 1
            /\ ~last'.ocr_called =>
                   usage'.counter = IF free_mode /\ month # usage.current_month_key
                                    THEN 0 ELSE usage.counter]_vars

C11_Witness ==
    /\ last.ev = "image"
    /\ last.ocr_called
    /\ last.reply = Msg("quota_exceeded")
    /\ usage.counter = 1

\* C12: every event handled (image, postback, text) is answered with a
\* message on every path, and no handler lets an exception out.
C12_AlwaysAnswered ==
    last.ev # "none" => (last.reply.msg # "none" /\ last.raised = "none")

\* C18: an event of user u, and set_state, get_state and clear_state for u,
\* leave the record of every other user as it was (stage, amount and last
\* activity); the store holds one record per user at most.
C18_OtherUsersUntouched ==
    [][\A u \in Users : \A v \in Users \ {u} :
        /\ last'.user = u => sessions'[v] = sessions[v]
        /\ set_state(sessions, u, "awaiting_amount", NoDec, now)[v] = sessions[v]
        /\ set_state(sessions, u, "awaiting_people", D1234, now)[v] = sessions[v]
        /\ get_state(sessions, u, now).store[v] = sessions[v]
        /\ clear_state(sessions, u)[v] = sessions[v]
        /\ DOMAIN sessions' = Users]_vars

\* C20: a stored session has an amount exactly when its stage is
\* awaiting_people: at awaiting_amount the amount is absent, at
\* awaiting_people it is a Decimal.
C20_AmountIffAwaitingPeople ==
    \A u \in Users :
        /\ sessions[u].stage = "awaiting_amount" => sessions[u].selected_amount = NoDec
        /\ sessions[u].stage = "awaiting_people" =>
               sessions[u].selected_amount.k \in {"fin", "inf", "nan", "snan"}
        /\ sessions[u].stage \in {"none", "awaiting_amount", "awaiting_people"}

C20_Witness ==
    /\ sessions["u1"] = Session("awaiting_people", D1234, now)
    /\ sessions["u2"].stage = "awaiting_amount"
    /\ last.ev = "postback"

\* this step is the call op of the SessionManager for user u
Calling(op, u) == ret'.op = op /\ ret'.user = u

\* the record of u is there and older than ttl
Expired(store, u, t) == store[u].stage # "none" /\ t - store[u].last_activity > ttl

\* C13: get_state(u) returns absent exactly when u has no record or
\* now - last_activity > ttl (a record aged exactly ttl is live), and that
\* same call removes an expired record; so after set_state(u,
\* awaiting_people, 500) and more than ttl without another call for u,
\* get_state(u) returns absent.
C13_LazyExpiry ==
    [][\A u \in Users :
        (Calling("get_state", u) /\ GetState(u)) =>
            /\ ret'.found = ~(sessions[u].stage = "none" \/ now - sessions[u].last_activity > ttl)
            /\ Expired(sessions, u, now) => sessions'[u] = Absent
            /\ ret'.found =>
                   /\ ret'.stage = sessions[u].stage
                   /\ ret'.selected_amount = sessions[u].selected_amount
            /\ (sessions[u] = Session("awaiting_people", D500, born[u])
                    /\ now - born[u] > ttl) => ~ret'.found]_vars

C13_Witness ==
    /\ ret.op = "get_state"
    /\ ~ret.found
    /\ ret.age > ttl
    /\ sessions[ret.user] = Absent
    /\ born[ret.user] = now - ret.age

\* C14: a get_state(u) made less than ttl after the previous call for u
\* returns the stored stage and amount and sets last_activity to the time
\* of the call, however long ago the set_state was.
C14_SlidingExpiry ==
    [][\A u \in Users :
        (/\ Calling("get_state", u)
         /\ GetState(u)
         /\ sessions[u].stage # "none"
         /\ now - sessions[u].last_activity < ttl) =>
            /\ ret'.found
            /\ ret'.stage = sessions[u].stage
            /\ ret'.selected_amount = sessions[u].selected_amount
            /\ sessions'[u] = [sessions[u] EXCEPT !.last_activity = now]]_vars

C14_Witness ==
    /\ ret.op = "get_state"
    /\ ret.found
    /\ ret.age >= 0
    /\ ret.age < ttl
    /\ now - born[ret.user] > ttl
    /\ sessions[ret.user] = Session("awaiting_people", D500, now)

\* C16: cleanup_expired removes exactly the records with
\* now - last_activity > ttl, returns how many it removed, and leaves every
\* other record as it was, last_activity included.
C16_CleanupExact ==
    [][(ret'.op = "cleanup_expired" /\ CleanupExpired) =>
        /\ \A u \in Users :
               sessions'[u] = IF Expired(sessions, u, now) THEN Absent ELSE sessions[u]
        /\ ret'.count = Cardinality({u \in Users : Expired(sessions, u, now)})]_vars

C16_Witness ==
    /\ ret.op = "cleanup_expired"
    /\ ret.count = 1
    /\ \E u \in Users : sessions[u].stage # "none" /\ now - sessions[u].last_activity = ttl
    /\ \E u \in Users : sessions[u] = Absent /\ plain[u].stage # "none"

\* C17: every get_state returns the same value with the cleanup_expired
\* calls as it does without them (plain is the store without them).
C17_CleanupNotNeeded ==
    [][\A u \in Users :
        (Calling("get_state", u) /\ GetState(u)) =>
            /\ get_state(sessions, u, now).found = get_state(plain, u, now).found
            /\ get_state(sessions, u, now).stage = get_state(plain, u, now).stage
            /\ get_state(sessions, u, now).selected_amount
                   = get_state(plain, u, now).selected_amount]_vars

C17_Witness ==
    /\ ret.op = "get_state"
    /\ ~ret.found
    /\ ret.age = -1
    /\ ret.plain_had
    /\ plain[ret.user] = Absent

\* C15: a record whose inactivity has exceeded ttl is eventually removed
\* from the store, also when its user never sends another event.
C15_ExpiredEventuallyRemoved ==
    \A u \in Users : [](Expired(sessions, u, now) => <>(sessions[u] = Absent))

\* a thread is inside a with self._lock block
InLock(th) == threads[th].pc \notin {"idle", "wait"}

\* at most one thread is inside a with block, and it is the lock's holder
MutualExclusion ==
    /\ \A a \in Threads : InLock(a) => lock = a
    /\ \A a \in Threads : \A b \in Threads : (InLock(a) /\ InLock(b)) => a = b

\* what the method of th, run as one step on the store it found when it took
\* the lock, leaves and returns: t1 is the clock its test read, t2 the clock
\* its write read
AsOneStep(th) ==
    LET c == threads[th]
        g == get_state(c.snap, c.user, c.t1)
        k == cleanup_expired(c.snap, c.t1)
    IN  CASE c.op = "set_state" ->
                 sessions = set_state(c.snap, c.user, c.arg.stage,
                                      c.arg.selected_amount, c.t2)
          [] c.op = "get_state" ->
                 /\ c.found = g.found
                 /\ c.t1 <= c.t2
                 /\ g.found => (/\ c.rec.stage = g.stage
                                /\ c.rec.selected_amount = g.selected_amount)
                 /\ sessions = IF g.found
                               THEN [g.store EXCEPT ![c.user].last_activity = c.t2]
                               ELSE g.store
          [] c.op = "clear_state" -> sessions = clear_state(c.snap, c.user)
          [] c.op = "cleanup_expired" ->
                 /\ sessions = k.store
                 /\ Cardinality(c.expired) = k.count
          [] OTHER -> FALSE

\* C19: set_state, get_state, clear_state and cleanup_expired exclude one
\* another on the whole store: at most one thread is inside a method body at
\* a time, and when a method leaves its body the store and the returned value
\* are those of the whole method run as one step on the store it found, so
\* every outcome is that of the calls in the order they took the lock; in
\* get_state the test, the eviction and the refresh are one such step.
C19_MethodsExcludeEachOther ==
    /\ MutualExclusion
    /\ \A th \in Threads : threads[th].pc = "out" => AsOneStep(th)

\* a get_state found a live record and refreshed it, the clock moved between
\* its test and its refresh, and the other thread is waiting for the lock
C19_Witness ==
    /\ threads["t1"].pc = "out"
    /\ threads["t1"].op = "get_state"
    /\ threads["t1"].found
    /\ threads["t1"].t2 > threads["t1"].t1
    /\ threads["t2"].pc = "wait"
    /\ threads["t2"].op = "set_state"

\* d >= 0 of a Decimal (a NaN is not)
NonNegative(d) == d.k \in {"fin", "inf"} /\ (d.neg => (d.k = "fin" /\ IsZeroDigits(d.c)))

\* C21: every amount the bot holds is non-negative: the selected amount of
\* every session, and the total and the per-person amount of every result
\* sent, whatever images, postbacks (of any data) and texts arrived.
C21_AmountsNonNegative ==
    /\ \A u \in Users :
           sessions[u].selected_amount # NoDec => NonNegative(sessions[u].selected_amount)
    /\ last.reply.msg = "result" =>
           (NonNegative(last.reply.total) /\ NonNegative(last.reply.per))

D1 == Fin(FALSE, <<1>>, 0)
D5 == Fin(FALSE, <<5>>, 0)
D10000000 == Fin(FALSE, <<1, 0, 0, 0, 0, 0, 0, 0>>, 0)

\* C22: for every text, every value extract_amount_candidates returns is in
\* [1, 10,000,000] (bounds included), no two entries are equal as decimals,
\* and the entries are strictly descending; an empty or absent text gives
\* the empty list.
C22_CandidatesRanked ==
    scan.extracted =>
        /\ scan.raised = "none"
        /\ \A i \in 1..Len(scan.out) :
               /\ scan.out[i].k = "fin"
               /\ DecCmp(D1, scan.out[i]) <= 0
               /\ DecCmp(scan.out[i], D10000000) <= 0
        /\ \A i \in 1..Len(scan.out) : \A j \in 1..Len(scan.out) :
               /\ i # j => DecEq(scan.out[i], scan.out[j]) = Returned(FALSE)
               /\ i < j => DecCmp(scan.out[i], scan.out[j]) > 0
        /\ (scan.kind = "none" \/ scan.text = <<>>) => scan.out = <<>>

\* "1 5 1" was scanned: the 1 that comes twice is listed once, after the 5
C22_Witness ==
    /\ scan.extracted
    /\ scan.text = <<"1", " ", "5", " ", "1">>
    /\ scan.out = <<D5, D1>>

D1500 == Fin(FALSE, <<1, 5, 0, 0>>, 0)

\* C23: the extractor takes maximal numeric tokens: "1500" gives the one
\* candidate 1500, and "999999999" gives no candidate.
C23_MaximalTokens ==
    scan.extracted =>
        /\ scan.text = Txt1500 => scan.out = <<D1500>>
        /\ scan.text = Txt999999999 => scan.out = <<>>

\* the separator that is the decimal point of a token without spaces, "" when
\* it has none: the only '.', the only ',' unless exactly 3 characters follow
\* it, and of '.' and ',' together the one that occurs last
RefDecimalPoint(t) ==
    LET dots == Count(t, ".")
        commas == Count(t, ",")
    IN  IF dots > 0 /\ commas > 0
        THEN (IF RFind(t, ".") > RFind(t, ",") THEN "." ELSE ",")
        ELSE IF dots = 1 THEN "."
        ELSE IF commas = 1 /\ Len(t) - Find(t, ",") # 3 THEN ","
        ELSE ""

\* the value of a token read by the case analysis, from its digits: the
\* other separator and the spaces are dropped; no digit at all, or a decimal
\* point that occurs twice, is malformed and gives no value
RefParse(token0) ==
    LET t == SelectSeq(token0, LAMBDA ch : ch # " ")
        point == RefDecimalPoint(t)
        digits == SelectSeq(t, IsDigit)
        after == SelectSeq(SubSeq(t, Find(t, point) + 1, Len(t)), IsDigit)
    IN  IF digits = <<>> \/ (point # "" /\ Count(t, point) > 1) THEN <<>>
        ELSE <<Fin(FALSE, StripZeros(ToDigits(digits)),
                   IF point = "" THEN 0 ELSE -Len(after))>>

\* a token of digits, '.', ',' and spaces
IsNumericToken(s) == \A i \in 1..Len(s) : IsDigit(s[i]) \/ s[i] \in {".", ",", " "}

D1234p56 == Fin(FALSE, <<1, 2, 3, 4, 5, 6>>, -2)
D12p34 == Fin(FALSE, <<1, 2, 3, 4>>, -2)

\* C24: for every token of digits, '.', ',' and spaces, parse_numeric returns
\* at most one value, the one of the case analysis: a single comma before
\* exactly 3 digits groups thousands ("1,234" is 1234), any other single
\* comma is the decimal point ("12,34" is 12.34), of '.' and ',' together the
\* one occurring last is the decimal point and the other is dropped
\* ("1.234,56" and "1,234.56" are 1234.56); a token malformed after that
\* gives the empty list.
C24_ParseByCases ==
    (scan.tokenized /\ IsNumericToken(scan.text)) =>
        /\ Len(scan.parsed) <= 1
        /\ scan.parsed = RefParse(scan.text)
        /\ scan.text = Txt1c234 => scan.parsed = <<D1234>>
        /\ scan.text = Txt12c34 => scan.parsed = <<D12p34>>
        /\ scan.text \in {Txt1d234c56, Txt1c234d56} => scan.parsed = <<D1234p56>>
        /\ scan.text = Txt1d2d34c5d6 => scan.parsed = <<>>

\* "1.234,56" was parsed: the comma is the decimal point, the dot is dropped
C24_Witness ==
    /\ scan.tokenized
    /\ scan.text = Txt1d234c56
    /\ scan.parsed = <<D1234p56>>

\* C25: at every increment, is_limit_exceeded, get_current_count and
\* get_remaining call, whatever calls (reset() among them) came before it,
\* the count does not decrease while the month key stays the same; it
\* decreases only at a call that observes a changed month key, which starts
\* the count of the new month from zero; a count that is lower after a step
\* was lowered by such a call or by reset(), and one that is higher by
\* increment; and is_limit_exceeded returns true exactly when free mode is on
\* and the count is at or above monthly_cap.
C25_CountPerMonth ==
    [][/\ uret'.op \in {"increment", "is_limit_exceeded", "get_current_count",
                        "get_remaining"} =>
              /\ usage'.current_month_key = usage.current_month_key =>
                     usage'.counter >= usage.counter
              /\ usage'.counter < usage.counter =>
                     (month # usage.current_month_key /\ usage'.current_month_key = month)
              /\ usage'.current_month_key # usage.current_month_key =>
                     usage'.counter = (IF uret'.op = "increment" THEN 1 ELSE 0)
       /\ usage'.counter < usage.counter =>
              \/ uret'.op = "reset" /\ usage'.counter = 0
              \/ month # usage.current_month_key /\ usage'.current_month_key = month
       /\ usage'.counter > usage.counter =>
              (uret'.op = "increment" /\ usage'.counter = uret'.val)
       /\ uret'.op = "is_limit_exceeded" =>
              (uret'.ret <=> (free_mode /\ usage'.counter >= monthly_cap))]_vars

\* is_limit_exceeded found the count of the month before at the cap, set it
\* to zero and returned false
C25_Witness ==
    /\ uret.op = "is_limit_exceeded"
    /\ uret.before >= monthly_cap
    /\ ~uret.ret
    /\ free_mode
    /\ usage.counter = 0
    /\ usage.current_month_key = 1

\* C26: in free mode, with image events handled at once, the OCR calls made
\* and the usage count of one month never exceed monthly_cap: of two image
\* events that meet one free slot, at most one is admitted.
C26_CapHoldsUnderRace ==
    free_mode => (usage.counter <= monthly_cap /\ tally.ocr <= monthly_cap)

\* C27: each amount selection produces at most one split result, also when
\* two valid people-count texts of the same user are handled at once: between
\* two selections of a user at most one result is sent to that user.
C27_OneResultPerSelection == \A u \in Users : tally.results[u] <= 1

\* C28: a selection is not lost to a racing text: when a postback wrote a
\* session after a text handler of the same user had read the session, and
\* both handlers are done, the session is at awaiting_people with the amount
\* the postback chose.
C28_SelectionSurvivesText ==
    \A a \in Workers : \A b \in Workers :
        (/\ workers[a].pc = "done" /\ workers[a].ev = "text" /\ workers[a].overtaken
         /\ workers[b].pc = "done" /\ workers[b].ev = "postback"
         /\ workers[b].user = workers[a].user
         /\ workers[b].reply.msg = "ask_people")
        => (/\ sessions[workers[a].user].stage = "awaiting_people"
            /\ sessions[workers[a].user].selected_amount = workers[b].reply.total)

====
